---------------------------- MODULE Spec2Model ----------------------------
(***************************************************************************)
(* Model of the callback-to-future/stream correlation layer of             *)
(* corebluetooth-async: the CentralManagerAsync facade, its delegate       *)
(* (CentralManagerAsyncDelegate) and the channel primitives it is built on *)
(* (oneshot, unbounded mpsc, async_broadcast in overflow mode).            *)
(*                                                                         *)
(* Three groups of variables, one per part of the program:                 *)
(*   - the connection part (connect / cancel / did_connect / ...),         *)
(*   - the scan part (scan / stop_scan / did_discover),                    *)
(*   - one Broadcast topic with its receivers.                             *)
(* Each specification below moves one group and leaves the others alone.   *)
(***************************************************************************)
EXTENDS Integers, Sequences, FiniteSets, TLC

VARIABLES
    \* ---- the connection part: platform, delegate maps and facade futures
    pstate,     \* peripheral -> CBPeripheralState, as peripheral.state() reads it
    connecting, \* peripheral -> the future whose oneshot sender the delegate's
                \* `connecting` map holds under that identifier (NoTask: no entry)
    disconnects,\* the delegate's `disconnects` Broadcast topic
    pc,         \* future -> "idle" | "awaiting" | "done" | "dropped" | "panicked"
    op,         \* future -> "none" | "connect" | "cancel": the facade call it runs
    tper,       \* future -> the peripheral it was called with
    chan,       \* connect future -> state of its oneshot channel
    dpos,       \* cancel future -> cursor of its disconnects receiver
    result,     \* future -> what the call returned ("none" until it returns)
    retEv,      \* cancel future -> number of the disconnect event it returned
    issued,     \* the platform calls the last step issued, in order
    last,       \* the last step: its operation, the future or peripheral it is
                \* about, and the error a did_fail_to_connect reported
    discLog,    \* the peripherals of the did_disconnect callbacks so far
    subAt,      \* cancel future -> Len(discLog) when it subscribed
    entry,      \* cancel future -> the peripheral state it read on entry
    superseded, \* the connect futures whose pending slot a later connect replaced
    \* ---- the scan part: platform scan, the demand-gated slot, scan receivers
    isScanning, \* -[CBCentralManager isScanning]
    inflight,   \* discovery callbacks the platform has queued and not yet run
    discoveries,\* the delegate's `discoveries` cell: NoScan (None) or the number
                \* of the scan() call whose sender it stores
    rxAlive,    \* scan() call -> its returned receiver exists and is not dropped
    sq,         \* scan() call -> the items queued in its channel
    sgot,       \* scan() call -> the items its receiver has yielded, in order
    nScans,     \* number of scan() calls that returned a receiver
    nCb,        \* number of did_discover callbacks run so far
    scalls,     \* the platform calls the last step issued, in order
    slast,      \* the operation of the last step
    expected,   \* scan() call -> the discoveries delivered while its receiver
                \* was alive and the latest returned
    stale,      \* the latest receiver was dropped and no did_discover has run
                \* and no scan() has returned since
    lost,       \* scan() call -> number of discoveries whose send on its sender
                \* failed
    \* ---- the peripheral part: characteristic values and their update topics
    cval,       \* characteristic -> the value characteristic.value() returns
    cvu,        \* the delegate's characteristic_value_updates map:
                \* characteristic -> its topic, if present, and the topic's number
    nTopics,    \* number of per-characteristic topics created so far
    rchar,      \* value receiver -> its characteristic ("-" before it exists)
    rkind,      \* value receiver -> "none" | "read" | "stream"
    rstate,     \* value receiver -> "idle" | "open" | "done" | "dropped"
    rcur,       \* value receiver -> its cursor, NoPos when it has none
    rtid,       \* value receiver -> the number of the topic it was created on
    rfrom,      \* value receiver -> number of did_update_value callbacks of its
                \* characteristic run before it was created
    rcached,    \* value receiver -> characteristic.value() when it was created
    rgot,       \* value receiver -> the results it has returned, in order
    fired,      \* characteristic -> for each did_update_value callback so far,
                \* its result and characteristic.value() when it ran
    vpanic,     \* the characteristic whose did_update_value_for_characteristic
                \* callback panicked on a RefCell borrow ("-": none did)
    \* ---- the peripheral part: readiness to write without response
    canSend,    \* peripheral.can_send_write_without_response()
    readyTopic, \* the delegate's ready_to_send_write_without_response topic
    qpc,        \* ready waiter -> "idle" | "awaiting" | "done" | "dropped"
    qcur,       \* ready waiter -> cursor of its receiver, NoPos without one
    qres,       \* ready waiter -> what its call returned ("none" until then)
    qsince,     \* ready waiter -> number of ready callbacks run between its
                \* call and its return
    nReady,     \* number of ready callbacks run so far
    \* ---- the peripheral part: the maps of one-shot senders
    omap,       \* map -> key -> the waiter whose sender the map holds under the
                \* key (NoWaiter: no entry)
    wpc,        \* waiter -> "idle" | "awaiting" | "done" | "dropped"
    wmap,       \* waiter -> the map its call registers in
    wkey,       \* waiter -> the key of its call
    wchan,      \* waiter -> state of its oneshot channel: "none" | "pending" |
                \* "SenderDropped" | "RxDropped" | the result sent
    wres,       \* waiter -> what its call returned ("none" until it returns)
    wful,       \* waiter -> number of callbacks that fulfilled its channel
    olast,      \* the last step on the maps: the operation and the waiter it
                \* registered, returned or dropped, or whose entry it found
    \* ---- the platform requests behind the calls that wait on a one-shot sender
    wop,        \* waiter -> the facade call it made ("-" when the scenario does
                \* not say)
    wreq,       \* waiter -> "none" | "issued" (the platform has the request of
                \* its call) | "answered" (the platform ran the callback for it)
    wby,        \* waiter -> the waiter whose request the callback that
                \* fulfilled its channel answered (NoWaiter: not fulfilled)
    l2cap_channel_opened,
                \* the delegate's l2cap_channel_opened cell: the waiter whose
                \* sender it stores (NoWaiter: None)
    \* ---- one error on its way to the caller (error.rs)
    esrc,       \* the failure as it is raised: a oneshot::Canceled, a RecvError,
                \* a platform error (NSError or a kind without one), or a
                \* platform error kind converted directly
    epc,        \* "idle" | "raised" | "converted" | "read"
    eerr,       \* the corebluetooth_async::Error made from it
    ekind,      \* what Error::kind() returned for it
    \* ---- one Broadcast topic (util.rs broadcast) and its receivers
    topic,      \* the shared channel state (async_broadcast Inner)
    rpos,       \* receiver -> its cursor (Receiver::pos), NoPos when not created
    got,        \* receiver -> the results its recv() calls returned, in order
    idle,       \* receiver -> number of events published since its last recv()
                \* returned (since it was created, before its first)
    published,  \* number of try_broadcast calls made on the topic so far
    lastPub,    \* what the last try_broadcast call returned ("none" before the first)
    maxPub,     \* number of publishes the scenario performs
    torn,       \* TRUE once the delegate that owns the topic has been dropped
    ended       \* the receivers whose recv() has returned RecvError::Closed

topicVars == <<topic, rpos, got, idle, published, lastPub, maxPub, torn, ended>>

connVars == <<pstate, connecting, disconnects, pc, op, tper, chan, dpos, result,
              retEv, issued, last, discLog, subAt, entry, superseded>>

scanVars == <<isScanning, inflight, discoveries, rxAlive, sq, sgot, nScans, nCb,
              scalls, slast, expected, stale, lost>>

cvVars == <<cval, cvu, nTopics, rchar, rkind, rstate, rcur, rtid, rfrom, rcached,
            rgot, fired, vpanic>>

rdyVars == <<canSend, readyTopic, qpc, qcur, qres, qsince, nReady>>

osVars == <<omap, wpc, wmap, wkey, wchan, wres, wful, olast>>

errVars == <<esrc, epc, eerr, ekind>>

reqVars == <<wop, wreq, wby, l2cap_channel_opened>>

perVars == <<cvVars, rdyVars, osVars, errVars, reqVars>>

vars == <<connVars, scanVars, topicVars, perVars>>

-----------------------------------------------------------------------------
(* Bounds and program constants *)

\* capacity of the Broadcast topics: broadcast(16) in CentralManagerAsyncDelegate::new
Cap == 16

\* publishes of the three-receiver scenario
MaxPublish3 == 10

\* publishes of the idle-subscriber scenario
MaxPublishLag == 20

\* did_disconnect callbacks after which a peripheral no longer reconnects
MaxDisconnects == 17

\* scan() calls that return a receiver
MaxScans == 2

\* did_discover callbacks
MaxDiscoveries == 3

\* discovery callbacks queued by the platform at one time
MaxInflight == 2

Gens == 1..MaxScans

NoScan == 0

\* did_update_value_for_characteristic callbacks
MaxUpdates == 2

Chars == {"c1", "c2"}

\* the values a characteristic takes; every characteristic starts with the first
Values == {1, 2}

ValueOrder == <<"v1", "v2", "v3">>

ValueReceivers == {ValueOrder[i] : i \in 1..Len(ValueOrder)}

\* the receivers of the scenario that only reads
ReadReceivers == {ValueOrder[1], ValueOrder[2]}

\* what the platform reports with a callback: success or an ATT error
CallbackResults == {"Ok", "ErrATT"}

\* is_ready_to_send_write_without_response callbacks
MaxReady == 3

ReadyOrder == <<"q1", "q2">>

ReadyWaiters == {ReadyOrder[i] : i \in 1..Len(ReadyOrder)}

\* capacity of a watch topic
WatchCap == 1

\* the maps of one-shot senders: connecting (CentralManagerAsyncDelegate) and
\* the seven of PeripheralAsyncDelegate
OneshotMaps == {"connecting", "included_service_discovery", "characteristic_discovery",
                "descriptor_discovery", "notification_updates", "characteristic_writes",
                "descriptor_value_updates", "descriptor_writes"}

\* the keys of a map: two services, characteristics, descriptors or peripherals
Keys == {"k1", "k2"}

WaiterOrder == <<"w1", "w2", "w3">>

Waiters == {WaiterOrder[i] : i \in 1..Len(WaiterOrder)}

NoWaiter == "-"

Receivers == {"r1", "r2", "r3"}

Peripherals == {"A", "B"}

\* the facade calls the application makes, in the order it first polls them
TaskOrder == <<"t1", "t2", "t3">>

Tasks == {TaskOrder[i] : i \in 1..Len(TaskOrder)}

NoTask == "-"

\* errors the platform reports through did_fail_to_connect
ConnectErrors == {"ErrConnectionFailed", "ErrConnectionTimeout"}

NoPos == -1

-----------------------------------------------------------------------------
(* async_broadcast channel, as configured by util.rs broadcast(cap)        *)

\* broadcast(cap) with the set_overflow(true) call left out
broadcast_no_overflow(cap) ==
    [ queue |-> <<>>,
      capacity |-> cap,
      head_pos |-> 0,
      receiver_count |-> 0,
      inactive_receiver_count |-> 1,
      overflow |-> FALSE,
      is_closed |-> FALSE ]

\* broadcast(cap) that drops the deactivated receiver instead of storing it:
\* the channel has no receiver of either kind left and closes
broadcast_without_keep_alive(cap) ==
    [ queue |-> <<>>,
      capacity |-> cap,
      head_pos |-> 0,
      receiver_count |-> 0,
      inactive_receiver_count |-> 0,
      overflow |-> TRUE,
      is_closed |-> TRUE ]

\* util.rs broadcast(cap): async_broadcast::broadcast(cap), set_overflow(true),
\* and the only receiver deactivated into _keep_alive
broadcast(cap) ==
    [ queue |-> <<>>,                 \* VecDeque<(T, waiters)>
      capacity |-> cap,
      head_pos |-> 0,                 \* position of queue[1] in the whole stream
      receiver_count |-> 0,
      inactive_receiver_count |-> 1,  \* _keep_alive
      overflow |-> TRUE,
      is_closed |-> FALSE ]

\* try_broadcast that queues the message for one reader only
try_broadcast_one_waiter(ch, msg) ==
    IF ch.is_closed THEN [ch |-> ch, res |-> "Closed"]
    ELSE IF ch.receiver_count = 0 THEN [ch |-> ch, res |-> "Inactive"]
    ELSE IF Len(ch.queue) = ch.capacity /\ ~ch.overflow THEN [ch |-> ch, res |-> "Full"]
    ELSE LET full == Len(ch.queue) = ch.capacity
             kept == IF full THEN Tail(ch.queue) ELSE ch.queue
         IN [ch |-> [ch EXCEPT !.queue = Append(kept, [msg |-> msg, waiters |-> 1]),
                               !.head_pos = IF full THEN @ + 1 ELSE @],
             res |-> "Ok"]

\* Sender::try_broadcast(msg) as the delegate callbacks call it; the result is
\* discarded by the callers (let _ = ...), the channel is what remains
try_broadcast(ch, msg) ==
    IF ch.is_closed THEN [ch |-> ch, res |-> "Closed"]
    ELSE IF ch.receiver_count = 0 THEN [ch |-> ch, res |-> "Inactive"]
    ELSE IF Len(ch.queue) = ch.capacity /\ ~ch.overflow THEN [ch |-> ch, res |-> "Full"]
    ELSE LET full == Len(ch.queue) = ch.capacity
             kept == IF full THEN Tail(ch.queue) ELSE ch.queue
         IN [ch |-> [ch EXCEPT !.queue = Append(kept, [msg |-> msg, waiters |-> ch.receiver_count]),
                               !.head_pos = IF full THEN @ + 1 ELSE @],
             res |-> "Ok"]

\* a new_receiver() that leaves the channel's receiver count as it was
new_receiver_uncounted(ch) ==
    [ch |-> ch, pos |-> ch.head_pos + Len(ch.queue)]

\* a new_receiver() whose cursor starts at the oldest event still queued
new_receiver_from_head(ch) ==
    [ch |-> [ch EXCEPT !.receiver_count = @ + 1],
     pos |-> ch.head_pos]

\* Sender::new_receiver(): a new cursor placed after everything already queued
new_receiver(ch) ==
    [ch |-> [ch EXCEPT !.receiver_count = @ + 1],
     pos |-> ch.head_pos + Len(ch.queue)]

\* try_recv_at that resumes an overtaken cursor without reporting the overflow
try_recv_at_silent(ch, pos) ==
    LET p == IF pos < ch.head_pos THEN ch.head_pos ELSE pos
        i == p - ch.head_pos + 1
    IN IF i > Len(ch.queue)
       THEN [ch |-> ch, pos |-> p,
             res |-> [kind |-> IF ch.is_closed THEN "Closed" ELSE "Empty", val |-> 0]]
       ELSE LET elt == ch.queue[i]
                last_waiter == elt.waiters - 1 = 0
            IN [ch |-> IF last_waiter
                       THEN [ch EXCEPT !.queue = Tail(@), !.head_pos = @ + 1]
                       ELSE [ch EXCEPT !.queue[i].waiters = @ - 1],
                pos |-> p + 1,
                res |-> [kind |-> "Ok", val |-> elt.msg]]

\* Inner::try_recv_at(pos): one receive attempt of a receiver whose cursor is pos
try_recv_at(ch, pos) ==
    IF pos < ch.head_pos
    THEN [ch |-> ch, pos |-> ch.head_pos,
          res |-> [kind |-> "Overflowed", val |-> ch.head_pos - pos]]
    ELSE LET i == pos - ch.head_pos + 1
         IN IF i > Len(ch.queue)
            THEN [ch |-> ch, pos |-> pos,
                  res |-> [kind |-> IF ch.is_closed THEN "Closed" ELSE "Empty", val |-> 0]]
            ELSE LET elt == ch.queue[i]
                     last_waiter == elt.waiters - 1 = 0
                 IN [ch |-> IF last_waiter
                            THEN [ch EXCEPT !.queue = Tail(@), !.head_pos = @ + 1]
                            ELSE [ch EXCEPT !.queue[i].waiters = @ - 1],
                     pos |-> pos + 1,
                     res |-> [kind |-> "Ok", val |-> elt.msg]]

\* Drop for Receiver: the cursor is run to the end of the queue, releasing the
\* receiver's claim on every message it has not read, and the receiver is
\* no longer counted; the channel closes with its last receiver, active or
\* inactive (_keep_alive is an inactive receiver, so it stays open)
RECURSIVE drop_receiver(_, _)
drop_receiver(ch, pos) ==
    LET a == try_recv_at(ch, pos)
    IN IF a.res.kind \in {"Empty", "Closed"}
       THEN [a.ch EXCEPT !.receiver_count = @ - 1,
                         !.is_closed = @ \/ (a.ch.receiver_count = 1
                                              /\ a.ch.inactive_receiver_count = 0)]
       ELSE drop_receiver(a.ch, a.pos)

\* a BroadcastSender dropped without its channel being closed
drop_sender_keep_open(ch) == [ch EXCEPT !.inactive_receiver_count = @ - 1]

\* Drop for BroadcastSender: the Sender is the channel's only one (the crate
\* never clones it), so Drop for Sender closes the channel and wakes every
\* pending recv(); _keep_alive is dropped with it
drop_sender(ch) ==
    [ch EXCEPT !.is_closed = TRUE, !.inactive_receiver_count = @ - 1]

\* error.rs From<async_broadcast::RecvError>: every receive error becomes Lagged
RecvResult(res) ==
    IF res.kind = "Ok" THEN res ELSE [kind |-> "Lagged", val |-> res.val]

-----------------------------------------------------------------------------
(* One Broadcast topic, a publisher and its receivers *)

TopicWith(rs) ==
    LET RECURSIVE Sub(_, _, _)
        Sub(ch, left, p) ==
            IF left = {} THEN [ch |-> ch, pos |-> p]
            ELSE LET r == CHOOSE x \in left : TRUE
                     n == new_receiver(ch)
                 IN Sub(n.ch, left \ {r}, [p EXCEPT ![r] = n.pos])
    IN Sub(broadcast(Cap), rs, [r \in Receivers |-> NoPos])

InitTopic(rs, n) ==
    /\ topic = TopicWith(rs).ch
    /\ rpos = TopicWith(rs).pos
    /\ got = [r \in Receivers |-> <<>>]
    /\ idle = [r \in Receivers |-> 0]
    /\ published = 0
    /\ lastPub = "none"
    /\ maxPub = n
    /\ torn = FALSE
    /\ ended = {}

\* a delegate callback publishes the next event (events are numbered 1, 2, ...)
Publish ==
    /\ ~torn
    /\ published < maxPub
    /\ topic' = try_broadcast(topic, published + 1).ch
    /\ lastPub' = try_broadcast(topic, published + 1).res
    /\ published' = published + 1
    /\ idle' = [r \in Receivers |-> IF rpos[r] = NoPos THEN 0 ELSE idle[r] + 1]
    /\ UNCHANGED <<rpos, got, maxPub, torn, ended, connVars, scanVars, perVars>>

\* receiver r calls recv().await and the call completes (it stays pending on
\* Empty); a caller whose recv() returned Closed does not call it again
Recv(r) ==
    /\ rpos[r] # NoPos
    /\ r \notin ended
    /\ LET a == try_recv_at(topic, rpos[r])
       IN /\ a.res.kind # "Empty"
          /\ topic' = a.ch
          /\ rpos' = [rpos EXCEPT ![r] = a.pos]
          /\ got' = [got EXCEPT ![r] = Append(@, RecvResult(a.res))]
          /\ idle' = [idle EXCEPT ![r] = 0]
          /\ ended' = IF a.res.kind = "Closed" THEN ended \cup {r} ELSE ended
    /\ UNCHANGED <<published, lastPub, maxPub, torn, connVars, scanVars, perVars>>

\* an accessor such as service_discovery() or state_updated() hands out a new
\* receiver of the topic: the facade call that wants one result (discover_services,
\* read_rssi, read_characteristic_value) or the stream of a subscriber
Subscribe(r) ==
    /\ rpos[r] = NoPos
    /\ got[r] = <<>>
    /\ topic' = new_receiver(topic).ch
    /\ rpos' = [rpos EXCEPT ![r] = new_receiver(topic).pos]
    /\ idle' = [idle EXCEPT ![r] = 0]
    /\ UNCHANGED <<got, published, lastPub, maxPub, torn, ended, connVars, scanVars,
                   perVars>>

\* a receiver is dropped by its holder: the future of a waiting call is
\* dropped, or a subscriber lets go of its stream
Unsubscribe(r) ==
    /\ rpos[r] # NoPos
    /\ topic' = drop_receiver(topic, rpos[r])
    /\ rpos' = [rpos EXCEPT ![r] = NoPos]
    /\ idle' = [idle EXCEPT ![r] = 0]
    /\ UNCHANGED <<got, published, lastPub, maxPub, torn, ended, connVars, scanVars,
                   perVars>>

\* the delegate is dropped (with the manager or peripheral that owns it) while
\* receivers obtained from it are still held: its BroadcastSender goes with it
Teardown ==
    /\ ~torn
    /\ torn' = TRUE
    /\ topic' = drop_sender(topic)
    /\ UNCHANGED <<rpos, got, idle, published, lastPub, maxPub, ended, connVars,
                   scanVars, perVars>>

-----------------------------------------------------------------------------
(* The platform: CBCentralManager and the CBPeripheral state it maintains *)

\* -[CBCentralManager connectPeripheral:options:]: a disconnected peripheral
\* starts connecting; the call changes nothing otherwise
platform_connect(ps, p) ==
    IF ps[p] = "Disconnected" THEN [ps EXCEPT ![p] = "Connecting"] ELSE ps

\* -[CBCentralManager cancelPeripheralConnection:]: the peripheral states the
\* call may leave. A connection is torn down (Disconnecting, did_disconnect
\* follows); a pending connection is given up at once or torn down likewise.
platform_cancel(ps, p) ==
    CASE ps[p] = "Connected" -> {[ps EXCEPT ![p] = "Disconnecting"]}
      [] ps[p] = "Connecting" -> {[ps EXCEPT ![p] = "Disconnected"],
                                  [ps EXCEPT ![p] = "Disconnecting"]}
      [] OTHER -> {ps}

\* the peripheral states after the platform calls `calls`, issued on peripheral p
AfterCalls(ps, calls, p) ==
    IF <<"cancel", p>> \in {calls[i] : i \in 1..Len(calls)}
    THEN platform_cancel(ps, p)
    ELSE {ps}

-----------------------------------------------------------------------------
(* CentralManagerAsyncDelegate: the `connecting` map of oneshot senders *)

\* register_connecting without the replacement: an existing entry is kept
register_connecting_keep_first(cmap, ch, p, t) ==
    IF cmap[p] = NoTask
    THEN [connecting |-> [cmap EXCEPT ![p] = t], chan |-> [ch EXCEPT ![t] = "pending"]]
    ELSE [connecting |-> cmap, chan |-> [ch EXCEPT ![t] = "Canceled"]]

\* register_connecting(peripheral): a fresh oneshot channel whose sender is
\* inserted under the identifier; the sender the insert replaces is dropped,
\* which cancels its receiver
register_connecting(cmap, ch, p, t) ==
    [connecting |-> [cmap EXCEPT ![p] = t],
     chan |-> [u \in Tasks |->
                 IF u = t THEN "pending"
                 ELSE IF u = cmap[p] /\ ch[u] = "pending" THEN "Canceled"
                 ELSE ch[u]]]

\* a callback that sends through the entry of the identifier and leaves it in
\* the map
complete_connecting_keep_entry(cmap, ch, p, v) ==
    IF cmap[p] = NoTask
    THEN [connecting |-> cmap, chan |-> ch]
    ELSE [connecting |-> cmap,
          chan |-> [ch EXCEPT ![cmap[p]] = IF @ = "pending" THEN v ELSE @]]

\* a callback that takes every entry of the map and sends v through each
complete_connecting_all(cmap, ch, p, v) ==
    [connecting |-> [q \in DOMAIN cmap |-> NoTask],
     chan |-> [u \in DOMAIN ch |->
                 IF ch[u] = "pending" /\ \E q \in DOMAIN cmap : cmap[q] = u
                 THEN v ELSE ch[u]]]

\* did_connect / did_fail_to_connect: remove the entry of the identifier and
\* send v through it; a send to a dropped receiver fails and is ignored
complete_connecting(cmap, ch, p, v) ==
    IF cmap[p] = NoTask
    THEN [connecting |-> cmap, chan |-> ch]
    ELSE [connecting |-> [cmap EXCEPT ![p] = NoTask],
          chan |-> [ch EXCEPT ![cmap[p]] = IF @ = "pending" THEN v ELSE @]]

-----------------------------------------------------------------------------
(* CentralManagerAsync::connect_with_options *)

\* a cleanup that cancels whatever the peripheral state is
guard_calls_always(ps, p) == <<<<"cancel", p>>>>

\* the closure of the ScopeGuard, run when the guard is dropped armed
guard_calls(ps, p) ==
    IF ps[p] = "Connecting" THEN <<<<"cancel", p>>>> ELSE <<>>

\* connect_return with the guard.defuse() call left out
connect_return_no_defuse(ps, p, c) ==
    [result |-> c, calls |-> guard_calls(ps, p)]

\* `let res = receiver.await?; guard.defuse(); res`, the oneshot having
\* resolved to c: Canceled leaves through `?` with the guard armed, a received
\* result defuses the guard and is returned
connect_return(ps, p, c) ==
    IF c = "Canceled"
    THEN [result |-> "Canceled", calls |-> guard_calls(ps, p)]
    ELSE [result |-> c, calls |-> <<>>]

\* the application polls its facade calls in the order of TaskOrder
Startable(t) ==
    /\ pc[t] = "idle"
    /\ \A i \in 1..Len(TaskOrder), j \in 1..Len(TaskOrder) :
          (TaskOrder[j] = t /\ i < j) => pc[TaskOrder[i]] # "idle"

\* first poll of connect_with_options(p): platform connect, guard, registration,
\* then the future waits on its receiver
ConnectCall(t, p) ==
    /\ Startable(t)
    /\ pstate' = platform_connect(pstate, p)
    /\ connecting' = register_connecting(connecting, chan, p, t).connecting
    /\ chan' = register_connecting(connecting, chan, p, t).chan
    /\ superseded' = superseded \cup
          (IF connecting[p] # NoTask /\ pc[connecting[p]] = "awaiting"
           THEN {connecting[p]} ELSE {})
    /\ pc' = [pc EXCEPT ![t] = "awaiting"]
    /\ op' = [op EXCEPT ![t] = "connect"]
    /\ tper' = [tper EXCEPT ![t] = p]
    /\ issued' = <<<<"connect", p>>>>
    /\ last' = [act |-> "connect", who |-> t, arg |-> "-"]
    /\ UNCHANGED <<disconnects, dpos, result, retEv, discLog, subAt, entry, scanVars, topicVars, perVars>>

\* the woken connect future is polled and returns
ConnectResume(t) ==
    /\ pc[t] = "awaiting" /\ op[t] = "connect"
    /\ chan[t] # "pending"
    /\ LET r == connect_return(pstate, tper[t], chan[t])
       IN /\ result' = [result EXCEPT ![t] = r.result]
          /\ issued' = r.calls
          /\ pstate' \in AfterCalls(pstate, r.calls, tper[t])
    /\ chan' = [chan EXCEPT ![t] = "none"]
    /\ pc' = [pc EXCEPT ![t] = "done"]
    /\ last' = [act |-> "connect_return", who |-> t, arg |-> "-"]
    /\ UNCHANGED <<connecting, disconnects, op, tper, dpos, retEv, discLog, subAt,
                   entry, superseded, scanVars, topicVars, perVars>>

\* the connect future is dropped while it waits: its receiver is dropped and
\* the armed guard runs (Drop for ScopeGuard)
ConnectDrop(t) ==
    /\ pc[t] = "awaiting" /\ op[t] = "connect"
    /\ issued' = guard_calls(pstate, tper[t])
    /\ pstate' \in AfterCalls(pstate, guard_calls(pstate, tper[t]), tper[t])
    /\ chan' = [chan EXCEPT ![t] = "RxDropped"]
    /\ pc' = [pc EXCEPT ![t] = "dropped"]
    /\ last' = [act |-> "connect_drop", who |-> t, arg |-> "-"]
    /\ UNCHANGED <<connecting, disconnects, op, tper, dpos, result, retEv, discLog,
                   subAt, entry, superseded, scanVars, topicVars, perVars>>

\* the platform reports the connection of p: did_connect
DidConnect(p) ==
    /\ pstate[p] = "Connecting"
    /\ pstate' = [pstate EXCEPT ![p] = "Connected"]
    /\ connecting' = complete_connecting(connecting, chan, p, "Ok").connecting
    /\ chan' = complete_connecting(connecting, chan, p, "Ok").chan
    /\ issued' = <<>>
    /\ last' = [act |-> "did_connect", who |-> p, arg |-> "-"]
    /\ UNCHANGED <<disconnects, pc, op, tper, dpos, result, retEv, discLog, subAt,
                   entry, superseded, scanVars, topicVars, perVars>>

\* the platform reports that connecting p failed with error e: did_fail_to_connect
DidFailToConnect(p, e) ==
    /\ pstate[p] = "Connecting"
    /\ pstate' = [pstate EXCEPT ![p] = "Disconnected"]
    /\ connecting' = complete_connecting(connecting, chan, p, e).connecting
    /\ chan' = complete_connecting(connecting, chan, p, e).chan
    /\ issued' = <<>>
    /\ last' = [act |-> "did_fail_to_connect", who |-> p, arg |-> e]
    /\ UNCHANGED <<disconnects, pc, op, tper, dpos, result, retEv, discLog, subAt,
                   entry, superseded, scanVars, topicVars, perVars>>

\* the platform reports the disconnection of p: did_disconnect publishes the
\* event on the disconnects topic
DidDisconnect(p) ==
    /\ pstate[p] \in {"Connected", "Disconnecting"}
    /\ pstate' = [pstate EXCEPT ![p] = "Disconnected"]
    /\ disconnects' = try_broadcast(disconnects,
                         [peripheral |-> p, seq |-> Len(discLog) + 1]).ch
    /\ discLog' = Append(discLog, p)
    /\ issued' = <<>>
    /\ last' = [act |-> "did_disconnect", who |-> p, arg |-> "-"]
    /\ UNCHANGED <<connecting, pc, op, tper, chan, dpos, result, retEv, subAt, entry,
                   superseded, scanVars, topicVars, perVars>>

-----------------------------------------------------------------------------
(* CentralManagerAsync::cancel_peripheral_connection *)

\* the comparison of the wait loop, always true
is_for_any(p, ev) == TRUE

\* `peripheral == &disconnect.peripheral`
is_for(p, ev) == ev.peripheral = p

\* the wait loop, run from one poll until it returns, panics or has to wait:
\* `while let Ok(disconnect) = disconnects.recv().await { if ... return }`
\* followed by unreachable!()
RECURSIVE cancel_wait(_, _, _)
cancel_wait(ch, pos, p) ==
    LET a == try_recv_at(ch, pos)
    IN CASE a.res.kind = "Empty" ->
              [ch |-> a.ch, pos |-> a.pos, out |-> "Pending", ev |-> 0]
         [] a.res.kind = "Ok" ->
              IF is_for(p, a.res.val)
              THEN [ch |-> a.ch, pos |-> a.pos, out |-> "Some", ev |-> a.res.val.seq]
              ELSE cancel_wait(a.ch, a.pos, p)
         [] OTHER ->
              [ch |-> a.ch, pos |-> a.pos, out |-> "Unreachable", ev |-> 0]

\* cancel_peripheral_connection that cancels established connections only
cancel_calls_connected_only(state, p) ==
    IF state = "Connected" THEN <<<<"cancel", p>>>> ELSE <<>>

\* the platform calls of cancel_peripheral_connection, from the state it read
cancel_calls(state, p) ==
    IF state = "Connecting" \/ state = "Connected" THEN <<<<"cancel", p>>>> ELSE <<>>

\* first poll of cancel_peripheral_connection(p): the state is read, the
\* platform call issued; a connected peripheral makes the future subscribe to
\* the disconnects topic and wait, any other state returns None
CancelCall(t, p) ==
    /\ Startable(t)
    /\ issued' = cancel_calls(pstate[p], p)
    /\ pstate' \in AfterCalls(pstate, cancel_calls(pstate[p], p), p)
    /\ IF pstate[p] = "Connected"
       THEN /\ disconnects' = new_receiver(disconnects).ch
            /\ dpos' = [dpos EXCEPT ![t] = new_receiver(disconnects).pos]
            /\ pc' = [pc EXCEPT ![t] = "awaiting"]
            /\ UNCHANGED result
       ELSE /\ result' = [result EXCEPT ![t] = "None"]
            /\ pc' = [pc EXCEPT ![t] = "done"]
            /\ UNCHANGED <<disconnects, dpos>>
    /\ op' = [op EXCEPT ![t] = "cancel"]
    /\ tper' = [tper EXCEPT ![t] = p]
    /\ entry' = [entry EXCEPT ![t] = pstate[p]]
    /\ subAt' = [subAt EXCEPT ![t] = Len(discLog)]
    /\ last' = [act |-> "cancel", who |-> t, arg |-> "-"]
    /\ UNCHANGED <<connecting, chan, retEv, discLog, superseded, scanVars, topicVars, perVars>>

\* the cancel future, woken by a publish on the topic, is polled
CancelResume(t) ==
    /\ pc[t] = "awaiting" /\ op[t] = "cancel"
    /\ try_recv_at(disconnects, dpos[t]).res.kind # "Empty"
    /\ LET w == cancel_wait(disconnects, dpos[t], tper[t])
       IN IF w.out = "Pending"
          THEN /\ disconnects' = w.ch
               /\ dpos' = [dpos EXCEPT ![t] = w.pos]
               /\ UNCHANGED <<pc, result, retEv>>
          ELSE /\ disconnects' = drop_receiver(w.ch, w.pos)
               /\ dpos' = [dpos EXCEPT ![t] = NoPos]
               /\ pc' = [pc EXCEPT ![t] = IF w.out = "Some" THEN "done" ELSE "panicked"]
               /\ result' = [result EXCEPT ![t] = IF w.out = "Some" THEN "Some" ELSE "Panic"]
               /\ retEv' = [retEv EXCEPT ![t] = w.ev]
    /\ issued' = <<>>
    /\ last' = [act |-> "cancel_poll", who |-> t, arg |-> "-"]
    /\ UNCHANGED <<pstate, connecting, op, tper, chan, discLog, subAt, entry,
                   superseded, scanVars, topicVars, perVars>>

\* the cancel future is dropped while it waits: its receiver is dropped
CancelDrop(t) ==
    /\ pc[t] = "awaiting" /\ op[t] = "cancel"
    /\ disconnects' = drop_receiver(disconnects, dpos[t])
    /\ dpos' = [dpos EXCEPT ![t] = NoPos]
    /\ pc' = [pc EXCEPT ![t] = "dropped"]
    /\ issued' = <<>>
    /\ last' = [act |-> "cancel_drop", who |-> t, arg |-> "-"]
    /\ UNCHANGED <<pstate, connecting, op, tper, chan, result, retEv, discLog, subAt,
                   entry, superseded, scanVars, topicVars, perVars>>

-----------------------------------------------------------------------------
(* CentralManagerAsync::scan and the demand-gated slot *)

\* mpsc::UnboundedSender::unbounded_send: fails when the receiver is dropped
unbounded_send(alive, q, item) ==
    IF alive THEN [ok |-> TRUE, q |-> Append(q, item)] ELSE [ok |-> FALSE, q |-> q]

\* did_discover that does not put the sender back after a successful send
did_discover_no_restore(slot, alive, q, item) ==
    IF slot = NoScan
    THEN [slot |-> NoScan, alive |-> alive, q |-> q, calls |-> <<>>]
    ELSE LET snd == unbounded_send(alive[slot], q[slot], item)
         IN IF snd.ok
            THEN [slot |-> NoScan, alive |-> alive, q |-> [q EXCEPT ![slot] = snd.q],
                  calls |-> <<>>]
            ELSE [slot |-> NoScan, alive |-> alive, q |-> q, calls |-> <<"stop_scan">>]

\* did_discover that drops the sender of a vanished consumer without stopping
\* the scan
did_discover_no_stop(slot, alive, q, item) ==
    IF slot = NoScan
    THEN [slot |-> NoScan, alive |-> alive, q |-> q, calls |-> <<>>]
    ELSE LET snd == unbounded_send(alive[slot], q[slot], item)
         IN IF snd.ok
            THEN [slot |-> slot, alive |-> alive, q |-> [q EXCEPT ![slot] = snd.q],
                  calls |-> <<>>]
            ELSE [slot |-> NoScan, alive |-> alive, q |-> q, calls |-> <<>>]

\* did_discover that puts the sender back whether or not the send succeeded
did_discover_keep_sender(slot, alive, q, item) ==
    IF slot = NoScan
    THEN [slot |-> NoScan, alive |-> alive, q |-> q, calls |-> <<>>]
    ELSE LET snd == unbounded_send(alive[slot], q[slot], item)
         IN IF snd.ok
            THEN [slot |-> slot, alive |-> alive, q |-> [q EXCEPT ![slot] = snd.q],
                  calls |-> <<>>]
            ELSE [slot |-> slot, alive |-> alive, q |-> q, calls |-> <<"stop_scan">>]

\* did_discover that stops the scan whenever it has no sender to send on
did_discover_stop_on_empty(slot, alive, q, item) ==
    IF slot = NoScan
    THEN [slot |-> NoScan, alive |-> alive, q |-> q, calls |-> <<"stop_scan">>]
    ELSE LET snd == unbounded_send(alive[slot], q[slot], item)
         IN IF snd.ok
            THEN [slot |-> slot, alive |-> alive, q |-> [q EXCEPT ![slot] = snd.q],
                  calls |-> <<>>]
            ELSE [slot |-> NoScan, alive |-> alive, q |-> q, calls |-> <<"stop_scan">>]

\* CentralManagerAsyncDelegate::did_discover: the sender is taken out of the
\* cell; a successful send puts it back, a failed one stops the scan and
\* leaves the cell empty
did_discover(slot, alive, q, item) ==
    IF slot = NoScan
    THEN [slot |-> NoScan, alive |-> alive, q |-> q, calls |-> <<>>]
    ELSE LET snd == unbounded_send(alive[slot], q[slot], item)
         IN IF snd.ok
            THEN [slot |-> slot, alive |-> alive, q |-> [q EXCEPT ![slot] = snd.q],
                  calls |-> <<>>]
            ELSE [slot |-> NoScan, alive |-> alive, q |-> q, calls |-> <<"stop_scan">>]

\* scan() whose discoveries() keeps a sender the cell already stores
scan_keep_stored_sender(scanning, slot, n) ==
    IF scanning
    THEN [panic |-> TRUE, calls |-> <<>>, slot |-> slot, n |-> n]
    ELSE [panic |-> FALSE, calls |-> <<"scan">>,
          slot |-> IF slot # NoScan THEN slot ELSE n + 1, n |-> n + 1]

\* scan() that refuses to start while the cell stores a sender
scan_asserting_empty_slot(scanning, slot, n) ==
    IF scanning \/ slot # NoScan
    THEN [panic |-> TRUE, calls |-> <<>>, slot |-> slot, n |-> n]
    ELSE [panic |-> FALSE, calls |-> <<"scan">>, slot |-> n + 1, n |-> n + 1]

\* scan() without the is_scanning() check
scan_unchecked(scanning, slot, n) ==
    [panic |-> FALSE, calls |-> <<"scan">>, slot |-> n + 1, n |-> n + 1]

\* CentralManagerAsync::scan: panic while the platform scans; otherwise the
\* platform scan call, then discoveries(): a new channel whose sender replaces
\* whatever the cell stored
scan(scanning, slot, n) ==
    IF scanning
    THEN [panic |-> TRUE, calls |-> <<>>, slot |-> slot, n |-> n]
    ELSE [panic |-> FALSE, calls |-> <<"scan">>, slot |-> n + 1, n |-> n + 1]

\* -[CBCentralManager isScanning] after the platform calls `calls`
ScanningAfter(scanning, calls) ==
    IF calls = <<>> THEN scanning ELSE calls[Len(calls)] = "scan"

\* the application calls scan()
ScanCall ==
    /\ isScanning \/ nScans < MaxScans
    /\ LET r == scan(isScanning, discoveries, nScans)
       IN /\ scalls' = r.calls
          /\ isScanning' = ScanningAfter(isScanning, r.calls)
          /\ discoveries' = r.slot
          /\ nScans' = r.n
          /\ rxAlive' = IF r.panic THEN rxAlive ELSE [rxAlive EXCEPT ![r.n] = TRUE]
          /\ slast' = IF r.panic THEN "scan_panic" ELSE "scan"
          /\ stale' = IF r.panic THEN stale ELSE FALSE
    /\ UNCHANGED <<lost, inflight, sq, sgot, nCb, expected, connVars, topicVars, perVars>>

\* the application calls CentralManager::stop_scan() (reached through Deref)
StopScanCall ==
    /\ isScanning
    /\ isScanning' = FALSE
    /\ scalls' = <<"stop_scan">>
    /\ slast' = "stop_scan"
    /\ UNCHANGED <<lost, inflight, discoveries, rxAlive, sq, sgot, nScans, nCb, expected,
                   stale, connVars, topicVars, perVars>>

\* the scanning platform sees an advertisement and queues a discovery callback
PlatformDiscovers ==
    /\ isScanning
    /\ inflight < MaxInflight
    /\ nCb + inflight < MaxDiscoveries
    /\ inflight' = inflight + 1
    /\ scalls' = <<>>
    /\ slast' = "advertisement"
    /\ UNCHANGED <<lost, isScanning, discoveries, rxAlive, sq, sgot, nScans, nCb, expected,
                   stale, connVars, topicVars, perVars>>

\* a queued discovery callback runs: did_discover for peripheral p
DidDiscover(p) ==
    /\ inflight > 0
    /\ inflight' = inflight - 1
    /\ nCb' = nCb + 1
    /\ LET item == [seq |-> nCb + 1, peripheral |-> p]
           r == did_discover(discoveries, rxAlive, sq, item)
       IN /\ discoveries' = r.slot
          /\ sq' = r.q
          /\ scalls' = r.calls
          /\ isScanning' = ScanningAfter(isScanning, r.calls)
          /\ expected' = IF nScans # NoScan /\ rxAlive[nScans]
                         THEN [expected EXCEPT ![nScans] = Append(@, item)]
                         ELSE expected
    /\ lost' = IF discoveries # NoScan /\ ~rxAlive[discoveries]
               THEN [lost EXCEPT ![discoveries] = @ + 1]
               ELSE lost
    /\ slast' = "did_discover"
    /\ stale' = FALSE
    /\ UNCHANGED <<rxAlive, sgot, nScans, connVars, topicVars, perVars>>

\* the consumer takes the next item from the receiver of scan() call g
ScanNext(g) ==
    /\ rxAlive[g]
    /\ sq[g] # <<>>
    /\ sgot' = [sgot EXCEPT ![g] = Append(@, Head(sq[g]))]
    /\ sq' = [sq EXCEPT ![g] = Tail(@)]
    /\ scalls' = <<>>
    /\ slast' = "next"
    /\ UNCHANGED <<lost, isScanning, inflight, discoveries, rxAlive, nScans, nCb, expected,
                   stale, connVars, topicVars, perVars>>

\* the consumer drops the receiver of scan() call g; what it had not read is
\* discarded
ScanDrop(g) ==
    /\ rxAlive[g]
    /\ rxAlive' = [rxAlive EXCEPT ![g] = FALSE]
    /\ sq' = [sq EXCEPT ![g] = <<>>]
    /\ stale' = IF g = nScans THEN TRUE ELSE stale
    /\ scalls' = <<>>
    /\ slast' = "drop"
    /\ UNCHANGED <<lost, isScanning, inflight, discoveries, sgot, nScans, nCb, expected,
                   connVars, topicVars, perVars>>

\* CentralManagerAsyncDelegate::new: the cell is empty, nothing scans
InitScan ==
    /\ isScanning = FALSE
    /\ inflight = 0
    /\ discoveries = NoScan
    /\ rxAlive = [g \in Gens |-> FALSE]
    /\ sq = [g \in Gens |-> <<>>]
    /\ sgot = [g \in Gens |-> <<>>]
    /\ nScans = 0
    /\ nCb = 0
    /\ scalls = <<>>
    /\ slast = "new"
    /\ expected = [g \in Gens |-> <<>>]
    /\ stale = FALSE
    /\ lost = [g \in Gens |-> 0]

NextScan ==
    \/ ScanCall
    \/ StopScanCall
    \/ PlatformDiscovers
    \/ \E p \in Peripherals : DidDiscover(p)
    \/ \E g \in Gens : ScanNext(g)
    \/ \E g \in Gens : ScanDrop(g)

-----------------------------------------------------------------------------
(* PeripheralAsyncDelegate: the per-characteristic value-update topics *)

\* an absent entry of the characteristic_value_updates map
NoTopic == [present |-> FALSE, id |-> 0, ch |-> broadcast(Cap)]

\* the accessor with a fresh topic inserted at every call
characteristic_value_updates_always_new(map, c, n) ==
    LET sub == new_receiver(broadcast(Cap))
    IN [map |-> [map EXCEPT ![c] = [present |-> TRUE, id |-> n + 1, ch |-> sub.ch]],
        pos |-> sub.pos, id |-> n + 1, n |-> n + 1]

\* PeripheralAsyncDelegate::characteristic_value_updates(characteristic): a new
\* receiver of the entry's topic; a vacant entry gets a fresh broadcast(16)
\* first. n is the number of topics created so far.
characteristic_value_updates(map, c, n) ==
    IF map[c].present
    THEN LET sub == new_receiver(map[c].ch)
         IN [map |-> [map EXCEPT ![c].ch = sub.ch],
             pos |-> sub.pos, id |-> map[c].id, n |-> n]
    ELSE LET sub == new_receiver(broadcast(Cap))
         IN [map |-> [map EXCEPT ![c] = [present |-> TRUE, id |-> n + 1, ch |-> sub.ch]],
             pos |-> sub.pos, id |-> n + 1, n |-> n + 1]

\* the update of a callback that reports the value the characteristic had when
\* the delegate was created
update_of_initial(cbres, value, seq) ==
    IF cbres = "Ok"
    THEN [seq |-> seq, kind |-> "Ok", val |-> 1]
    ELSE [seq |-> seq, kind |-> cbres, val |-> 0]

\* result.map(|_| characteristic.value().unwrap()): the update a callback
\* publishes, from its result and the value read when it runs
update_of(cbres, value, seq) ==
    IF cbres = "Ok"
    THEN [seq |-> seq, kind |-> "Ok", val |-> value]
    ELSE [seq |-> seq, kind |-> cbres, val |-> 0]

\* std RefCell: the borrow flag counts the live shared borrows, NoBorrow when
\* there is none, and is Exclusive while a RefMut lives
NoBorrow == 0

Exclusive == -1

\* RefCell::borrow: panics while a RefMut lives
borrow(flag) == [ok |-> flag # Exclusive, flag |-> flag + 1]

\* RefCell::borrow_mut: panics while any Ref or RefMut lives
borrow_mut(flag) == [ok |-> flag = NoBorrow, flag |-> Exclusive]

\* PeripheralAsyncDelegate::did_update_value_for_characteristic: nothing without
\* an entry. The Ref of `characteristic_value_updates.borrow()` in the `if let`
\* lives to the end of its body (the sender it yields borrows from it), so in
\* the branch of an entry without receivers `borrow_mut()` is called with that
\* Ref live and panics before anything is removed; otherwise the update is
\* published on the entry's topic.
did_update_value_for_characteristic(map, c, cbres, value, seq) ==
    LET looked == borrow(NoBorrow)
    IN IF ~map[c].present THEN [map |-> map, panic |-> FALSE]
       ELSE IF map[c].ch.receiver_count = 0
       THEN IF borrow_mut(looked.flag).ok
            THEN [map |-> [map EXCEPT ![c] = NoTopic], panic |-> FALSE]
            ELSE [map |-> map, panic |-> TRUE]
       ELSE [map |-> [map EXCEPT ![c].ch =
                         try_broadcast(@, update_of(cbres, value, seq)).ch],
             panic |-> FALSE]

\* what `recv().await` hands on: the published update, or Lagged for any
\* receive error
ValueResult(res) ==
    LET e == RecvResult(res)
    IN IF e.kind = "Ok"
       THEN e.val
       ELSE [seq |-> 0, kind |-> e.kind, val |-> 0]

\* value receivers are put to use in a fixed order
ValueStartable(r) ==
    /\ rstate[r] = "idle"
    /\ \A i, j \in 1..Len(ValueOrder) :
          (ValueOrder[j] = r /\ i < j) => rstate[ValueOrder[i]] # "idle"

\* the new receiver r on characteristic c, by either facade call
ValueSubscribe(r, c, kind) ==
    LET sub == characteristic_value_updates(cvu, c, nTopics)
    IN /\ cvu' = sub.map
       /\ nTopics' = sub.n
       /\ rchar' = [rchar EXCEPT ![r] = c]
       /\ rkind' = [rkind EXCEPT ![r] = kind]
       /\ rstate' = [rstate EXCEPT ![r] = "open"]
       /\ rcur' = [rcur EXCEPT ![r] = sub.pos]
       /\ rtid' = [rtid EXCEPT ![r] = sub.id]
       /\ rfrom' = [rfrom EXCEPT ![r] = Len(fired[c])]
       /\ rcached' = [rcached EXCEPT ![r] = cval[c]]

\* first poll of read_characteristic_value(c): the platform read is issued, a
\* receiver of the characteristic's topic is created and awaited
ReadCall(r, c) ==
    /\ vpanic = "-"
    /\ ValueStartable(r)
    /\ ValueSubscribe(r, c, "read")
    /\ UNCHANGED <<vpanic, cval, rgot, fired, connVars, scanVars, topicVars, rdyVars, osVars, errVars, reqVars>>

\* PeripheralAsync::characteristic_value_updates(c): a stream of the updates
SubscribeCall(r, c) ==
    /\ vpanic = "-"
    /\ ValueStartable(r)
    /\ ValueSubscribe(r, c, "stream")
    /\ UNCHANGED <<vpanic, cval, rgot, fired, connVars, scanVars, topicVars, rdyVars, osVars, errVars, reqVars>>

\* the platform receives a read response or a notification for c and stores
\* its value in the characteristic
PlatformValue(c, v) ==
    /\ vpanic = "-"
    /\ cval[c] # v
    /\ cval' = [cval EXCEPT ![c] = v]
    /\ UNCHANGED <<vpanic, cvu, nTopics, rchar, rkind, rstate, rcur, rtid, rfrom, rcached,
                   rgot, fired, connVars, scanVars, topicVars, rdyVars, osVars, errVars, reqVars>>

RECURSIVE SumLen(_, _)
SumLen(f, S) ==
    IF S = {} THEN 0
    ELSE LET x == CHOOSE y \in S : TRUE IN Len(f[x]) + SumLen(f, S \ {x})

\* number of did_update_value_for_characteristic callbacks run so far
UpdatesSoFar == SumLen(fired, Chars)

\* the did_update_value_for_characteristic callback for c runs; a panic in it
\* ends the process (it unwinds into the platform's frames)
DidUpdateValue(c, cbres) ==
    /\ vpanic = "-"
    /\ UpdatesSoFar < MaxUpdates
    /\ LET r == did_update_value_for_characteristic(cvu, c, cbres, cval[c],
                                                    Len(fired[c]) + 1)
       IN /\ cvu' = r.map
          /\ vpanic' = IF r.panic THEN c ELSE vpanic
    /\ fired' = [fired EXCEPT ![c] = Append(@, [res |-> cbres, val |-> cval[c]])]
    /\ UNCHANGED <<cval, nTopics, rchar, rkind, rstate, rcur, rtid, rfrom, rcached,
                   rgot, connVars, scanVars, topicVars, rdyVars, osVars, errVars, reqVars>>

\* the pending read r is polled after its topic woke it: it returns what
\* recv() yields and its receiver, a temporary, is dropped
ReadResume(r) ==
    /\ vpanic = "-"
    /\ rstate[r] = "open" /\ rkind[r] = "read"
    /\ LET c == rchar[r]
           a == try_recv_at(cvu[c].ch, rcur[r])
       IN /\ a.res.kind # "Empty"
          /\ rgot' = [rgot EXCEPT ![r] = Append(@, ValueResult(a.res))]
          /\ cvu' = [cvu EXCEPT ![c].ch = drop_receiver(a.ch, a.pos)]
    /\ rstate' = [rstate EXCEPT ![r] = "done"]
    /\ rcur' = [rcur EXCEPT ![r] = NoPos]
    /\ UNCHANGED <<vpanic, cval, nTopics, rchar, rkind, rtid, rfrom, rcached, fired,
                   connVars, scanVars, topicVars, rdyVars, osVars, errVars, reqVars>>

\* the stream r yields its next result
StreamRecv(r) ==
    /\ vpanic = "-"
    /\ rstate[r] = "open" /\ rkind[r] = "stream"
    /\ LET c == rchar[r]
           a == try_recv_at(cvu[c].ch, rcur[r])
       IN /\ a.res.kind # "Empty"
          /\ rgot' = [rgot EXCEPT ![r] = Append(@, ValueResult(a.res))]
          /\ cvu' = [cvu EXCEPT ![c].ch = a.ch]
          /\ rcur' = [rcur EXCEPT ![r] = a.pos]
    /\ UNCHANGED <<vpanic, cval, nTopics, rchar, rkind, rstate, rtid, rfrom, rcached, fired,
                   connVars, scanVars, topicVars, rdyVars, osVars, errVars, reqVars>>

\* the stream r, or the future of the pending read r, is dropped
ValueDrop(r) ==
    /\ vpanic = "-"
    /\ rstate[r] = "open"
    /\ cvu' = [cvu EXCEPT ![rchar[r]].ch = drop_receiver(@, rcur[r])]
    /\ rstate' = [rstate EXCEPT ![r] = "dropped"]
    /\ rcur' = [rcur EXCEPT ![r] = NoPos]
    /\ UNCHANGED <<vpanic, cval, nTopics, rchar, rkind, rtid, rfrom, rcached, rgot, fired,
                   connVars, scanVars, topicVars, rdyVars, osVars, errVars, reqVars>>

\* PeripheralAsyncDelegate::default: no per-characteristic topic exists
InitValue ==
    /\ cval = [c \in Chars |-> 1]
    /\ cvu = [c \in Chars |-> NoTopic]
    /\ nTopics = 0
    /\ rchar = [r \in ValueReceivers |-> "-"]
    /\ rkind = [r \in ValueReceivers |-> "none"]
    /\ rstate = [r \in ValueReceivers |-> "idle"]
    /\ rcur = [r \in ValueReceivers |-> NoPos]
    /\ rtid = [r \in ValueReceivers |-> 0]
    /\ rfrom = [r \in ValueReceivers |-> 0]
    /\ rcached = [r \in ValueReceivers |-> 0]
    /\ rgot = [r \in ValueReceivers |-> <<>>]
    /\ fired = [c \in Chars |-> <<>>]
    /\ vpanic = "-"

\* reads of characteristic values whose stored value changes meanwhile
NextRead ==
    \/ \E r \in ReadReceivers, c \in Chars : ReadCall(r, c)
    \/ \E c \in Chars, v \in Values : PlatformValue(c, v)
    \/ \E c \in Chars, res \in CallbackResults : DidUpdateValue(c, res)
    \/ \E r \in ValueReceivers : ReadResume(r)
    \/ \E r \in ValueReceivers : ValueDrop(r)

\* streams and reads of characteristic values side by side
NextValue ==
    \/ \E r \in ValueReceivers, c \in Chars : ReadCall(r, c)
    \/ \E r \in ValueReceivers, c \in Chars : SubscribeCall(r, c)
    \/ \E c \in Chars, res \in CallbackResults : DidUpdateValue(c, res)
    \/ \E r \in ValueReceivers : ReadResume(r)
    \/ \E r \in ValueReceivers : StreamRecv(r)
    \/ \E r \in ValueReceivers : ValueDrop(r)

-----------------------------------------------------------------------------
(* PeripheralAsync::ready_to_send_write_without_response *)

\* util.rs watch(): a broadcast topic of capacity one
watch == broadcast(WatchCap)

\* a ready callback that publishes nothing
is_ready_unpublished(ch) == ch

\* PeripheralAsyncDelegate::is_ready_to_send_write_without_response:
\* try_broadcast(()) on the ready topic, the outcome ignored
is_ready_to_send_write_without_response(ch) == try_broadcast(ch, 0).ch

\* the first poll of ready_to_send_write_without_response: with capacity the
\* call returns Ok at once; without, it creates a receiver of the ready topic
\* and polls recv() on it, which finds nothing yet
ready_to_send_write_without_response(can, ch) ==
    IF can
    THEN [done |-> TRUE, ch |-> ch, pos |-> NoPos]
    ELSE [done |-> FALSE, ch |-> new_receiver(ch).ch, pos |-> new_receiver(ch).pos]

\* what the awaited recv() makes the call return: `.recv().await?; Ok(())`
ReadyResult(res) == IF RecvResult(res).kind = "Ok" THEN "Ok" ELSE RecvResult(res).kind

ReadyStartable(w) ==
    /\ qpc[w] = "idle"
    /\ \A i, j \in 1..Len(ReadyOrder) :
          (ReadyOrder[j] = w /\ i < j) => qpc[ReadyOrder[i]] # "idle"

\* ready_to_send_write_without_response() is called and polled
ReadyCall(w) ==
    /\ ReadyStartable(w)
    /\ LET r == ready_to_send_write_without_response(canSend, readyTopic)
       IN /\ readyTopic' = r.ch
          /\ qcur' = [qcur EXCEPT ![w] = r.pos]
          /\ qpc' = [qpc EXCEPT ![w] = IF r.done THEN "done" ELSE "awaiting"]
          /\ qres' = [qres EXCEPT ![w] = IF r.done THEN "Ok" ELSE "none"]
    /\ UNCHANGED <<canSend, qsince, nReady, connVars, scanVars, topicVars, cvVars, osVars, errVars, reqVars>>

\* a write without response uses up the platform's capacity
PlatformBusy ==
    /\ canSend
    /\ canSend' = FALSE
    /\ UNCHANGED <<readyTopic, qpc, qcur, qres, qsince, nReady, connVars, scanVars,
                   topicVars, cvVars, osVars, errVars, reqVars>>

\* the platform has capacity again and the
\* is_ready_to_send_write_without_response callback runs
IsReady ==
    /\ nReady < MaxReady
    /\ nReady' = nReady + 1
    /\ canSend' = TRUE
    /\ readyTopic' = is_ready_to_send_write_without_response(readyTopic)
    /\ qsince' = [w \in ReadyWaiters |->
                    IF qpc[w] = "awaiting" THEN qsince[w] + 1 ELSE qsince[w]]
    /\ UNCHANGED <<qpc, qcur, qres, connVars, scanVars, topicVars, cvVars, osVars, errVars, reqVars>>

\* the waiter, woken by the topic, is polled: recv() completes and the call
\* returns, dropping its receiver
ReadyResume(w) ==
    /\ qpc[w] = "awaiting"
    /\ LET a == try_recv_at(readyTopic, qcur[w])
       IN /\ a.res.kind # "Empty"
          /\ qres' = [qres EXCEPT ![w] = ReadyResult(a.res)]
          /\ readyTopic' = drop_receiver(a.ch, a.pos)
    /\ qpc' = [qpc EXCEPT ![w] = "done"]
    /\ qcur' = [qcur EXCEPT ![w] = NoPos]
    /\ UNCHANGED <<canSend, qsince, nReady, connVars, scanVars, topicVars, cvVars, osVars, errVars, reqVars>>

\* the future of a waiting call is dropped
ReadyDrop(w) ==
    /\ qpc[w] = "awaiting"
    /\ readyTopic' = drop_receiver(readyTopic, qcur[w])
    /\ qpc' = [qpc EXCEPT ![w] = "dropped"]
    /\ qcur' = [qcur EXCEPT ![w] = NoPos]
    /\ UNCHANGED <<canSend, qres, qsince, nReady, connVars, scanVars, topicVars, cvVars, osVars, errVars, reqVars>>

\* PeripheralAsyncDelegate::default: the ready topic is a fresh watch topic;
\* nothing was written yet, so the platform has capacity
InitReady ==
    /\ canSend = TRUE
    /\ readyTopic = watch
    /\ qpc = [w \in ReadyWaiters |-> "idle"]
    /\ qcur = [w \in ReadyWaiters |-> NoPos]
    /\ qres = [w \in ReadyWaiters |-> "none"]
    /\ qsince = [w \in ReadyWaiters |-> 0]
    /\ nReady = 0

NextReady ==
    \/ \E w \in ReadyWaiters : ReadyCall(w)
    \/ PlatformBusy
    \/ IsReady
    \/ \E w \in ReadyWaiters : ReadyResume(w)
    \/ \E w \in ReadyWaiters : ReadyDrop(w)

-----------------------------------------------------------------------------
(* The maps of one-shot senders and the calls that wait on them *)

\* the accessor without the replacement: an entry already present is kept and
\* the new sender dropped
register_keep_first(m, ch, k, w) ==
    IF m[k] = NoWaiter
    THEN [map |-> [m EXCEPT ![k] = w], chan |-> [ch EXCEPT ![w] = "pending"]]
    ELSE [map |-> m, chan |-> [ch EXCEPT ![w] = "SenderDropped"]]

\* included_service_discovery(key) and the accessors like it: a fresh oneshot
\* channel whose sender is inserted under the key; HashMap::insert drops the
\* sender it replaces, which cancels that sender's receiver
register(m, ch, k, w) ==
    [map |-> [m EXCEPT ![k] = w],
     chan |-> [u \in DOMAIN ch |->
                 IF u = w THEN "pending"
                 ELSE IF u = m[k] /\ ch[u] = "pending" THEN "SenderDropped"
                 ELSE ch[u]]]

\* a callback that sends through the entry and leaves it in the map
complete_keep_entry(m, ch, k, v) ==
    IF m[k] = NoWaiter
    THEN [map |-> m, chan |-> ch, sent |-> FALSE]
    ELSE [map |-> m,
          chan |-> [ch EXCEPT ![m[k]] = IF @ = "pending" THEN v ELSE @],
          sent |-> ch[m[k]] = "pending"]

\* did_discover_included_services and the callbacks like it: the entry of the
\* key is removed and, if there was one, the result is sent through it; a send
\* to a dropped receiver fails and the failure is ignored
complete(m, ch, k, v) ==
    IF m[k] = NoWaiter
    THEN [map |-> m, chan |-> ch, sent |-> FALSE]
    ELSE [map |-> [m EXCEPT ![k] = NoWaiter],
          chan |-> [ch EXCEPT ![m[k]] = IF @ = "pending" THEN v ELSE @],
          sent |-> ch[m[k]] = "pending"]

\* `receiver.await?`: a cancelled channel gives the Canceled error, a fulfilled
\* one the result the callback sent
oneshot_result(c) == IF c = "SenderDropped" THEN "Canceled" ELSE c

WaiterStartable(w) ==
    /\ wpc[w] = "idle"
    /\ \A i, j \in 1..Len(WaiterOrder) :
          (WaiterOrder[j] = w /\ i < j) => wpc[WaiterOrder[i]] # "idle"

\* first poll of a call such as discover_characteristics(key): the platform
\* call is issued, the sender registered, the receiver awaited. The calls of
\* one behaviour are calls of one operation, on any of its keys.
OneshotCall(w, mp, k) ==
    /\ WaiterStartable(w)
    /\ \A u \in Waiters : wpc[u] # "idle" => wmap[u] = mp
    /\ LET r == register(omap[mp], wchan, k, w)
       IN /\ omap' = [omap EXCEPT ![mp] = r.map]
          /\ wchan' = r.chan
    /\ wpc' = [wpc EXCEPT ![w] = "awaiting"]
    /\ wmap' = [wmap EXCEPT ![w] = mp]
    /\ wkey' = [wkey EXCEPT ![w] = k]
    /\ olast' = [act |-> "register", who |-> w]
    /\ UNCHANGED <<wres, wful, connVars, scanVars, topicVars, cvVars, rdyVars, errVars, reqVars>>

\* the completion callback of map mp runs for key k with result v
OneshotCallback(mp, k, v) ==
    /\ LET r == complete(omap[mp], wchan, k, v)
       IN /\ omap' = [omap EXCEPT ![mp] = r.map]
          /\ wchan' = r.chan
          /\ wful' = IF r.sent THEN [wful EXCEPT ![omap[mp][k]] = @ + 1] ELSE wful
    /\ olast' = [act |-> "callback", who |-> omap[mp][k]]
    /\ UNCHANGED <<wpc, wmap, wkey, wres, connVars, scanVars, topicVars, cvVars, rdyVars, errVars, reqVars>>

\* the waiting call is polled after its channel resolved, and returns
OneshotResume(w) ==
    /\ wpc[w] = "awaiting"
    /\ wchan[w] # "pending"
    /\ wres' = [wres EXCEPT ![w] = oneshot_result(wchan[w])]
    /\ wpc' = [wpc EXCEPT ![w] = "done"]
    /\ olast' = [act |-> "return", who |-> w]
    /\ UNCHANGED <<omap, wmap, wkey, wchan, wful, connVars, scanVars, topicVars,
                   cvVars, rdyVars, errVars, reqVars>>

\* the future of a waiting call is dropped, its receiver with it; the sender
\* stays in the map
OneshotDrop(w) ==
    /\ wpc[w] = "awaiting"
    /\ wpc' = [wpc EXCEPT ![w] = "dropped"]
    /\ wchan' = [wchan EXCEPT ![w] = "RxDropped"]
    /\ olast' = [act |-> "drop", who |-> w]
    /\ UNCHANGED <<omap, wmap, wkey, wres, wful, connVars, scanVars, topicVars,
                   cvVars, rdyVars, errVars, reqVars>>

\* the delegates' Default / new: every map is empty
InitOneshot ==
    /\ omap = [mp \in OneshotMaps |-> [k \in Keys |-> NoWaiter]]
    /\ wpc = [w \in Waiters |-> "idle"]
    /\ wmap = [w \in Waiters |-> "-"]
    /\ wkey = [w \in Waiters |-> "-"]
    /\ wchan = [w \in Waiters |-> "none"]
    /\ wres = [w \in Waiters |-> "none"]
    /\ wful = [w \in Waiters |-> 0]
    /\ olast = [act |-> "new", who |-> NoWaiter]
    /\ wop = [w \in Waiters |-> "-"]
    /\ wreq = [w \in Waiters |-> "none"]
    /\ wby = [w \in Waiters |-> NoWaiter]
    /\ l2cap_channel_opened = NoWaiter

NextOneshot ==
    \/ \E w \in Waiters, mp \in OneshotMaps, k \in Keys : OneshotCall(w, mp, k)
    \/ \E mp \in OneshotMaps, k \in Keys, v \in CallbackResults : OneshotCallback(mp, k, v)
    \/ \E w \in Waiters : OneshotResume(w)
    \/ \E w \in Waiters : OneshotDrop(w)

-----------------------------------------------------------------------------
(* The calls of PeripheralAsync that wait on a one-shot sender, each with    *)
(* the platform request it issues and the callback that answers it           *)

\* the calls of PeripheralAsync that register a one-shot sender
Ops == {"discover_included_services", "discover_characteristics",
        "discover_descriptors", "read_descriptor_value",
        "write_characteristic_value", "write_descriptor_value", "set_notify"}

\* the PeripheralDelegate callbacks that complete a one-shot sender
Callbacks == {"did_discover_included_services", "did_discover_characteristics",
              "did_write_value_for_characteristic",
              "did_update_notification_state_for_characteristic",
              "did_discover_descriptors_for_characteristic",
              "did_update_value_for_descriptor", "did_write_value_for_descriptor"}

\* the map a facade call registers its sender in, through the accessor it calls
accessor_map(call) ==
    CASE call = "discover_included_services" -> "included_service_discovery"
      [] call = "discover_characteristics" -> "characteristic_discovery"
      [] call = "discover_descriptors" -> "descriptor_discovery"
      [] call = "read_descriptor_value" -> "descriptor_value_updates"
      [] call = "write_characteristic_value" -> "characteristic_writes"
      [] call = "write_descriptor_value" -> "descriptor_writes"
      [] call = "set_notify" -> "notification_updates"

\* a delegate whose write callback looks in the map of the notify toggles
callback_map_crossed(cb) ==
    CASE cb = "did_discover_included_services" -> "included_service_discovery"
      [] cb = "did_discover_characteristics" -> "characteristic_discovery"
      [] cb = "did_write_value_for_characteristic" -> "notification_updates"
      [] cb = "did_update_notification_state_for_characteristic" -> "notification_updates"
      [] cb = "did_discover_descriptors_for_characteristic" -> "descriptor_discovery"
      [] cb = "did_update_value_for_descriptor" -> "descriptor_value_updates"
      [] cb = "did_write_value_for_descriptor" -> "descriptor_writes"

\* the map a callback removes the sender from
callback_map(cb) ==
    CASE cb = "did_discover_included_services" -> "included_service_discovery"
      [] cb = "did_discover_characteristics" -> "characteristic_discovery"
      [] cb = "did_write_value_for_characteristic" -> "characteristic_writes"
      [] cb = "did_update_notification_state_for_characteristic" -> "notification_updates"
      [] cb = "did_discover_descriptors_for_characteristic" -> "descriptor_discovery"
      [] cb = "did_update_value_for_descriptor" -> "descriptor_value_updates"
      [] cb = "did_write_value_for_descriptor" -> "descriptor_writes"

\* the callback the platform answers a request with (the sync crate's
\* PeripheralDelegate documents each callback by the call it answers)
answer_of(call) ==
    CASE call = "discover_included_services" -> "did_discover_included_services"
      [] call = "discover_characteristics" -> "did_discover_characteristics"
      [] call = "discover_descriptors" -> "did_discover_descriptors_for_characteristic"
      [] call = "read_descriptor_value" -> "did_update_value_for_descriptor"
      [] call = "write_characteristic_value" -> "did_write_value_for_characteristic"
      [] call = "write_descriptor_value" -> "did_write_value_for_descriptor"
      [] call = "set_notify" -> "did_update_notification_state_for_characteristic"

\* a facade call that yields between the platform call and the registration
facade_body_yielding(call) == <<"request", "await", "register", "await">>

\* the body of a facade call such as discover_characteristics, statement by
\* statement: the platform call on self.inner, the accessor that registers the
\* sender, and the await of the receiver
facade_body(call) == <<"request", "register", "await">>

\* what one poll of a future runs: the statements of its body before its first
\* suspension point (an async fn runs nothing before it is polled)
first_poll(body) ==
    LET stop == CHOOSE i \in 1..Len(body) :
                    body[i] = "await" /\ \A j \in 1..(i - 1) : body[j] # "await"
    IN {body[j] : j \in 1..(stop - 1)}

\* first poll of the facade call `call` on key k: the platform request is issued,
\* the sender registered through the accessor, the receiver awaited
RequestCall(w, call, k) ==
    /\ WaiterStartable(w)
    /\ LET ran == first_poll(facade_body(call))
           r == IF "register" \in ran
                THEN register(omap[accessor_map(call)], wchan, k, w)
                ELSE [map |-> omap[accessor_map(call)], chan |-> wchan]
       IN /\ omap' = [omap EXCEPT ![accessor_map(call)] = r.map]
          /\ wchan' = r.chan
          /\ wreq' = [wreq EXCEPT ![w] = IF "request" \in ran THEN "issued" ELSE @]
    /\ wpc' = [wpc EXCEPT ![w] = "awaiting"]
    /\ wmap' = [wmap EXCEPT ![w] = accessor_map(call)]
    /\ wkey' = [wkey EXCEPT ![w] = k]
    /\ wop' = [wop EXCEPT ![w] = call]
    /\ olast' = [act |-> "register", who |-> w]
    /\ UNCHANGED <<wres, wful, wby, l2cap_channel_opened, connVars, scanVars,
                   topicVars, cvVars, rdyVars, errVars>>

\* the earliest request the platform has not answered yet
NextRequest(u) ==
    /\ wreq[u] = "issued"
    /\ \A i, j \in 1..Len(WaiterOrder) :
          (WaiterOrder[j] = u /\ i < j) => wreq[WaiterOrder[i]] # "issued"

\* the platform answers the request of waiter u's call with result v: the
\* callback of that operation runs for the request's key. The platform works
\* through a peripheral's requests in the order it got them, whether or not
\* the future that issued one still exists.
PlatformAnswer(u, v) ==
    /\ NextRequest(u)
    /\ LET mp == callback_map(answer_of(wop[u]))
           k == wkey[u]
           r == complete(omap[mp], wchan, k, v)
       IN /\ omap' = [omap EXCEPT ![mp] = r.map]
          /\ wchan' = r.chan
          /\ wful' = IF r.sent THEN [wful EXCEPT ![omap[mp][k]] = @ + 1] ELSE wful
          /\ wby' = IF r.sent THEN [wby EXCEPT ![omap[mp][k]] = u] ELSE wby
          /\ olast' = [act |-> "callback", who |-> omap[mp][k]]
    /\ wreq' = [wreq EXCEPT ![u] = "answered"]
    /\ UNCHANGED <<wpc, wmap, wkey, wres, wop, l2cap_channel_opened, connVars,
                   scanVars, topicVars, cvVars, rdyVars, errVars>>

\* the waiters of the scenario of requests and answers
RequestWaiters == {WaiterOrder[1], WaiterOrder[2]}

NextRequests ==
    \/ \E w \in RequestWaiters, call \in Ops, k \in Keys : RequestCall(w, call, k)
    \/ \E u \in RequestWaiters, v \in CallbackResults : PlatformAnswer(u, v)
    \/ \E w \in RequestWaiters : OneshotResume(w)
    \/ \E w \in RequestWaiters : OneshotDrop(w)

-----------------------------------------------------------------------------
(* PeripheralAsync::open_l2cap_channel and the l2cap_channel_opened cell *)

\* the PSMs a channel is opened on
Psms == {"psm1", "psm2"}

\* the accessor without the replacement: a stored sender is kept and the new
\* one dropped
register_l2cap_channel_open_keep_first(cell, ch, w) ==
    IF cell = NoWaiter
    THEN [cell |-> w, chan |-> [ch EXCEPT ![w] = "pending"]]
    ELSE [cell |-> cell, chan |-> [ch EXCEPT ![w] = "SenderDropped"]]

\* register_l2cap_channel_open(): a fresh oneshot channel whose sender is put
\* into the cell; Cell::replace returns the sender stored before, which is
\* dropped, and that cancels its receiver. The PSM is no argument.
register_l2cap_channel_open(cell, ch, w) ==
    [cell |-> w,
     chan |-> [u \in DOMAIN ch |->
                 IF u = w THEN "pending"
                 ELSE IF u = cell /\ ch[u] = "pending" THEN "SenderDropped"
                 ELSE ch[u]]]

\* did_open_l2cap_channel(result): the sender is taken out of the cell and, if
\* there was one, the result is sent through it; a send to a dropped receiver
\* fails and the failure is ignored
did_open_l2cap_channel(cell, ch, v) ==
    IF cell = NoWaiter
    THEN [cell |-> NoWaiter, chan |-> ch, sent |-> FALSE]
    ELSE [cell |-> NoWaiter,
          chan |-> [ch EXCEPT ![cell] = IF @ = "pending" THEN v ELSE @],
          sent |-> ch[cell] = "pending"]

\* first poll of open_l2cap_channel(psm): the platform is asked to open the
\* channel, the sender registered, the receiver awaited
OpenL2capCall(w, psm) ==
    /\ WaiterStartable(w)
    /\ LET r == register_l2cap_channel_open(l2cap_channel_opened, wchan, w)
       IN /\ l2cap_channel_opened' = r.cell
          /\ wchan' = r.chan
    /\ wpc' = [wpc EXCEPT ![w] = "awaiting"]
    /\ wmap' = [wmap EXCEPT ![w] = "l2cap_channel_opened"]
    /\ wkey' = [wkey EXCEPT ![w] = psm]
    /\ wop' = [wop EXCEPT ![w] = "open_l2cap_channel"]
    /\ wreq' = [wreq EXCEPT ![w] = "issued"]
    /\ olast' = [act |-> "register", who |-> w]
    /\ UNCHANGED <<omap, wres, wful, wby, connVars, scanVars, topicVars, cvVars,
                   rdyVars, errVars>>

\* the platform answers the open request of waiter u's call with result v:
\* did_open_l2cap_channel runs
DidOpenL2cap(u, v) ==
    /\ NextRequest(u)
    /\ LET r == did_open_l2cap_channel(l2cap_channel_opened, wchan, v)
       IN /\ l2cap_channel_opened' = r.cell
          /\ wchan' = r.chan
          /\ wful' = IF r.sent THEN [wful EXCEPT ![l2cap_channel_opened] = @ + 1]
                     ELSE wful
          /\ wby' = IF r.sent THEN [wby EXCEPT ![l2cap_channel_opened] = u] ELSE wby
          /\ olast' = [act |-> "callback", who |-> l2cap_channel_opened]
    /\ wreq' = [wreq EXCEPT ![u] = "answered"]
    /\ UNCHANGED <<omap, wpc, wmap, wkey, wres, wop, connVars, scanVars, topicVars,
                   cvVars, rdyVars, errVars>>

NextL2cap ==
    \/ \E w \in Waiters, psm \in Psms : OpenL2capCall(w, psm)
    \/ \E u \in Waiters, v \in CallbackResults : DidOpenL2cap(u, v)
    \/ \E w \in Waiters : OneshotResume(w)
    \/ \E w \in Waiters : OneshotDrop(w)

-----------------------------------------------------------------------------
(* Errors: corebluetooth::Error, corebluetooth_async::Error and their kinds *)

\* largest NSError code the platform reports in the scenarios
MaxCode == 5

Codes == 0..MaxCode

\* largest count an async_broadcast::RecvError::Overflowed carries
MaxMissed == 3

\* NSError::domain of a platform error
Domains == {"CBErrorDomain", "CBATTErrorDomain", "NSCocoaErrorDomain"}

\* an ErrorKind value; code is meaningful for Bluetooth and ATT only
Kind(tag, code) == [tag |-> tag, code |-> code]

NoKind == Kind("-", 0)

\* corebluetooth::error::ErrorKind
SyncKinds ==
    {Kind(t, c) : t \in {"Bluetooth", "ATT"}, c \in Codes} \cup {Kind("Other", 0)}

NoNSError == [domain |-> "-", code |-> 0]

NSErrors == [domain : Domains, code : Codes]

\* impl From<&NSError> for ErrorKind (corebluetooth)
ErrorKind_from_NSError(error) ==
    IF error.domain = "CBErrorDomain" THEN Kind("Bluetooth", error.code)
    ELSE IF error.domain = "CBATTErrorDomain" THEN Kind("ATT", error.code)
    ELSE Kind("Other", 0)

\* corebluetooth::Error::from_nserror
from_nserror(error) == [data |-> "Os", nserror |-> error, kind |-> NoKind]

\* corebluetooth::Error::from_nserror_or_kind
from_nserror_or_kind(error, kind) ==
    IF error # NoNSError THEN from_nserror(error)
    ELSE [data |-> "Simple", nserror |-> NoNSError, kind |-> kind]

\* corebluetooth::Error::kind
sync_kind(e) ==
    IF e.data = "Os" THEN ErrorKind_from_NSError(e.nserror) ELSE e.kind

NoSyncError == [data |-> "-", nserror |-> NoNSError, kind |-> NoKind]

NoError == [data |-> "-", os |-> NoSyncError, kind |-> NoKind]

\* impl From<corebluetooth::error::ErrorKind> for ErrorKind
ErrorKind_from_sync(kind) ==
    IF kind.tag = "Bluetooth" THEN Kind("Bluetooth", kind.code)
    ELSE IF kind.tag = "ATT" THEN Kind("ATT", kind.code)
    ELSE Kind("Other", 0)

\* impl From<corebluetooth::Error> for Error
Error_from_sync(error) == [data |-> "Os", os |-> error, kind |-> NoKind]

\* impl From<ErrorKind> for Error
Error_from_kind(kind) == [data |-> "Simple", os |-> NoSyncError, kind |-> kind]

\* impl From<corebluetooth::error::ErrorKind> for Error
Error_from_sync_kind(kind) ==
    [data |-> "Simple", os |-> NoSyncError, kind |-> ErrorKind_from_sync(kind)]

\* impl From<oneshot::Canceled> for Error
Error_from_Canceled == Error_from_kind(Kind("Canceled", 0))

\* a From<RecvError> that reports the failure as a cancellation
Error_from_RecvError_canceled(value) == Error_from_kind(Kind("Canceled", 0))

\* impl From<async_broadcast::RecvError> for Error: the value is ignored
Error_from_RecvError(value) == Error_from_kind(Kind("Lagged", 0))

\* Error::kind
kind(e) ==
    IF e.data = "Os" THEN ErrorKind_from_sync(sync_kind(e.os)) ELSE e.kind

Source(type, variant, missed, nserror, k) ==
    [type |-> type, variant |-> variant, missed |-> missed, nserror |-> nserror,
     kind |-> k]

NoSource == Source("-", "-", 0, NoNSError, NoKind)

\* the failures the crate converts with `?`, `.into()` and `map_err`
Sources ==
    {Source("oneshot::Canceled", "-", 0, NoNSError, NoKind)}
    \cup {Source("RecvError", "Closed", 0, NoNSError, NoKind)}
    \cup {Source("RecvError", "Overflowed", n, NoNSError, NoKind) : n \in 1..MaxMissed}
    \cup {Source("platform", "NSError", 0, e, NoKind) : e \in NSErrors}
    \cup {Source("platform", "kind", 0, NoNSError, k) : k \in SyncKinds}
    \cup {Source("platform kind", "-", 0, NoNSError, k) : k \in SyncKinds}

\* a failure is raised: a sender is dropped, a receiver lags or finds its
\* channel closed, the platform hands an NSError (or none) to a callback
Raise(src) ==
    /\ epc = "idle"
    /\ esrc' = src
    /\ epc' = "raised"
    /\ UNCHANGED <<eerr, ekind, connVars, scanVars, topicVars, cvVars, rdyVars, osVars, reqVars>>

\* `receiver.await?` on a oneshot receiver
ConvertCanceled ==
    /\ epc = "raised"
    /\ esrc.type = "oneshot::Canceled"
    /\ eerr' = Error_from_Canceled
    /\ epc' = "converted"
    /\ UNCHANGED <<esrc, ekind, connVars, scanVars, topicVars, cvVars, rdyVars, osVars, reqVars>>

\* `recv().await?` on a broadcast receiver
ConvertRecvError ==
    /\ epc = "raised"
    /\ esrc.type = "RecvError"
    /\ eerr' = Error_from_RecvError(esrc)
    /\ epc' = "converted"
    /\ UNCHANGED <<esrc, ekind, connVars, scanVars, topicVars, cvVars, rdyVars, osVars, reqVars>>

\* a callback's corebluetooth::Error, made from the NSError or from a kind
\* when the platform gave none, converted with `.into()` / `?`
ConvertPlatform ==
    /\ epc = "raised"
    /\ esrc.type = "platform"
    /\ eerr' = Error_from_sync(from_nserror_or_kind(esrc.nserror, esrc.kind))
    /\ epc' = "converted"
    /\ UNCHANGED <<esrc, ekind, connVars, scanVars, topicVars, cvVars, rdyVars, osVars, reqVars>>

\* a corebluetooth::error::ErrorKind converted with `.into()`
ConvertPlatformKind ==
    /\ epc = "raised"
    /\ esrc.type = "platform kind"
    /\ eerr' = Error_from_sync_kind(esrc.kind)
    /\ epc' = "converted"
    /\ UNCHANGED <<esrc, ekind, connVars, scanVars, topicVars, cvVars, rdyVars, osVars, reqVars>>

\* the caller asks the error for its kind
ReadKind ==
    /\ epc = "converted"
    /\ ekind' = kind(eerr)
    /\ epc' = "read"
    /\ UNCHANGED <<esrc, eerr, connVars, scanVars, topicVars, cvVars, rdyVars, osVars, reqVars>>

InitError ==
    /\ esrc = NoSource
    /\ epc = "idle"
    /\ eerr = NoError
    /\ ekind = NoKind

NextError ==
    \/ \E src \in Sources : Raise(src)
    \/ ConvertCanceled
    \/ ConvertRecvError
    \/ ConvertPlatform
    \/ ConvertPlatformKind
    \/ ReadKind

\* PeripheralAsyncDelegate::default
InitPeripheral == InitValue /\ InitReady /\ InitOneshot /\ InitError

-----------------------------------------------------------------------------
(* The connection part as a whole *)

\* CentralManagerAsyncDelegate::new, no facade call made yet, every peripheral
\* disconnected
InitConn ==
    /\ pstate = [p \in Peripherals |-> "Disconnected"]
    /\ connecting = [p \in Peripherals |-> NoTask]
    /\ disconnects = broadcast(Cap)
    /\ pc = [t \in Tasks |-> "idle"]
    /\ op = [t \in Tasks |-> "none"]
    /\ tper = [t \in Tasks |-> "-"]
    /\ chan = [t \in Tasks |-> "none"]
    /\ dpos = [t \in Tasks |-> NoPos]
    /\ result = [t \in Tasks |-> "none"]
    /\ retEv = [t \in Tasks |-> 0]
    /\ issued = <<>>
    /\ last = [act |-> "new", who |-> "-", arg |-> "-"]
    /\ discLog = <<>>
    /\ subAt = [t \in Tasks |-> 0]
    /\ entry = [t \in Tasks |-> "-"]
    /\ superseded = {}

Init == InitConn /\ InitScan /\ InitPeripheral /\ InitTopic({}, 0)

\* the peripherals connected with enable_auto_reconnect
Reconnecting == {"B"}

\* the platform re-establishes the connection of p by itself (p was connected
\* with enable_auto_reconnect and its disconnect reported is_reconnecting):
\* did_connect runs
AutoReconnect(p) ==
    /\ pstate[p] = "Disconnected"
    /\ Len(discLog) < MaxDisconnects
    /\ discLog # <<>> /\ discLog[Len(discLog)] = p
    /\ pstate' = [pstate EXCEPT ![p] = "Connected"]
    /\ connecting' = complete_connecting(connecting, chan, p, "Ok").connecting
    /\ chan' = complete_connecting(connecting, chan, p, "Ok").chan
    /\ issued' = <<>>
    /\ last' = [act |-> "did_connect", who |-> p, arg |-> "-"]
    /\ UNCHANGED <<disconnects, pc, op, tper, dpos, result, retEv, discLog, subAt,
                   entry, superseded, scanVars, topicVars, perVars>>

\* both peripherals connected, each by a connect call that has returned
ConnectedBoth ==
    /\ pstate = [p \in Peripherals |-> "Connected"]
    /\ connecting = [p \in Peripherals |-> NoTask]
    /\ disconnects = broadcast(Cap)
    /\ pc = [t \in Tasks |-> IF t = TaskOrder[3] THEN "idle" ELSE "done"]
    /\ op = [t \in Tasks |-> IF t = TaskOrder[3] THEN "none" ELSE "connect"]
    /\ tper = [t \in Tasks |-> IF t = TaskOrder[1] THEN "A"
                                ELSE IF t = TaskOrder[2] THEN "B" ELSE "-"]
    /\ chan = [t \in Tasks |-> "none"]
    /\ dpos = [t \in Tasks |-> NoPos]
    /\ result = [t \in Tasks |-> IF t = TaskOrder[3] THEN "none" ELSE "Ok"]
    /\ retEv = [t \in Tasks |-> 0]
    /\ issued = <<>>
    /\ last = [act |-> "connect_return", who |-> TaskOrder[2], arg |-> "-"]
    /\ discLog = <<>>
    /\ subAt = [t \in Tasks |-> 0]
    /\ entry = [t \in Tasks |-> "-"]
    /\ superseded = {}

InitCancelLag == ConnectedBoth /\ InitScan /\ InitPeripheral /\ InitTopic({}, 0)

NextCancelLag ==
    \/ \E t \in Tasks, p \in Peripherals : CancelCall(t, p)
    \/ \E p \in Peripherals : DidDisconnect(p)
    \/ \E p \in Reconnecting : AutoReconnect(p)
    \/ \E t \in Tasks : CancelResume(t)
    \/ \E t \in Tasks : CancelDrop(t)

\* a cancel on a connected peripheral while another peripheral keeps losing
\* and regaining its connection
SpecCancelLag == InitCancelLag /\ [][NextCancelLag]_vars

Next ==
    \/ \E t \in Tasks, p \in Peripherals : ConnectCall(t, p)
    \/ \E t \in Tasks : ConnectResume(t)
    \/ \E t \in Tasks : ConnectDrop(t)
    \/ \E p \in Peripherals : DidConnect(p)
    \/ \E p \in Peripherals, e \in ConnectErrors : DidFailToConnect(p, e)
    \/ \E p \in Peripherals : DidDisconnect(p)
    \/ \E t \in Tasks, p \in Peripherals : CancelCall(t, p)
    \/ \E t \in Tasks : CancelResume(t)
    \/ \E t \in Tasks : CancelDrop(t)

Spec == Init /\ [][Next]_vars

\* the executor polls a future that was woken: a connect future whose channel
\* resolved is eventually polled unless it is dropped first
FairSpec == Spec /\ \A t \in Tasks : WF_vars(ConnectResume(t))

\* the scan part alone: no connection is requested
InitScanOnly == InitScan /\ InitConn /\ InitPeripheral /\ InitTopic({}, 0)

SpecScan == InitScanOnly /\ [][NextScan]_vars

\* the characteristic values of one peripheral alone
InitValueOnly == InitPeripheral /\ InitConn /\ InitScan /\ InitTopic({}, 0)

SpecValue == InitValueOnly /\ [][NextValue]_vars

SpecRead == InitValueOnly /\ [][NextRead]_vars

\* readiness to write without response alone
SpecReady == InitValueOnly /\ [][NextReady]_vars

\* the maps of one-shot senders alone
SpecOneshot == InitValueOnly /\ [][NextOneshot]_vars

\* a call whose channel resolved is eventually polled unless it is dropped
FairSpecOneshot == SpecOneshot /\ \A w \in Waiters : WF_vars(OneshotResume(w))

\* the calls on a peripheral and the platform's answers to their requests
SpecRequests == InitValueOnly /\ [][NextRequests]_vars

\* the calls that open an L2CAP channel on one peripheral and the platform's
\* answers
SpecL2cap == InitValueOnly /\ [][NextL2cap]_vars

\* the error conversions alone
SpecError == InitValueOnly /\ [][NextError]_vars

-----------------------------------------------------------------------------
(* Claims about connect and cancel_peripheral_connection *)

Issued(calls, c) == c \in {calls[i] : i \in 1..Len(calls)}

\* the connect future t is dropped in this step
DropsConnect(t) ==
    pc[t] = "awaiting" /\ op[t] = "connect" /\ pc'[t] = "dropped"

\* the connect future t returns in this step
ReturnsConnect(t) ==
    pc[t] = "awaiting" /\ op[t] = "connect" /\ pc'[t] = "done"

\* C1: when the future of connect is dropped after its platform connect call
\* and before it returned (its completion not fulfilled in particular), the
\* drop issues a platform cancel-connection call for its peripheral if and only
\* if the peripheral state is Connecting at that moment, and no other call.
C1_DropCancelsIffConnecting ==
    [][\A t \in Tasks : DropsConnect(t) =>
         /\ Issued(issued', <<"cancel", tper[t]>>) <=> pstate[tper[t]] = "Connecting"
         /\ \A i \in 1..Len(issued') : issued'[i] = <<"cancel", tper[t]>>]_vars

\* a connect future dropped with its sender still registered (never fulfilled,
\* never replaced), the drop having cancelled the pending connection
C1_Witness ==
    \E t \in Tasks :
        /\ last = [act |-> "connect_drop", who |-> t, arg |-> "-"]
        /\ connecting[tper[t]] = t
        /\ issued = <<<<"cancel", tper[t]>>>>
        /\ pstate[tper[t]] # "Connecting"

\* C2: a pending connect fulfilled by did_connect receives success, one
\* fulfilled by did_fail_to_connect receives the error the platform reported;
\* connect then returns what it received and issues no platform call, whatever
\* the peripheral state is when it returns.
C2_FulfilledReturnsWithoutCancel ==
    [][\A t \in Tasks :
         /\ (chan[t] = "pending" /\ connecting[tper[t]] = t
               /\ last'.act = "did_connect" /\ last'.who = tper[t])
              => chan'[t] = "Ok"
         /\ (chan[t] = "pending" /\ connecting[tper[t]] = t
               /\ last'.act = "did_fail_to_connect" /\ last'.who = tper[t])
              => chan'[t] = last'.arg
         /\ (ReturnsConnect(t) /\ chan[t] \in {"Ok"} \cup ConnectErrors)
              => /\ result'[t] = chan[t]
                 /\ issued' = <<>>
                 /\ pstate' = pstate]_vars

\* connect returned the reported error while its peripheral is Connecting again
\* (a later connect on it), and issued nothing
C2_Witness ==
    \E t \in Tasks :
        /\ last = [act |-> "connect_return", who |-> t, arg |-> "-"]
        /\ result[t] \in ConnectErrors
        /\ pstate[tper[t]] = "Connecting"
        /\ issued = <<>>

\* C3: a connect on P registered while an earlier connect on P is awaiting
\* takes over P's slot of the connecting map; the earlier future's channel is
\* cancelled at once, and the earlier future, unless it is dropped, eventually
\* returns, with a Canceled error: it does not stay pending.
C3_SupersededConnectIsCanceled ==
    /\ [](\A t \in superseded :
            /\ connecting[tper[t]] # t
            /\ pc[t] = "awaiting" => chan[t] = "Canceled"
            /\ pc[t] = "done" => result[t] = "Canceled")
    /\ \A t \in Tasks : (t \in superseded) ~> (pc[t] \in {"done", "dropped"})

\* two connects on one peripheral: the first returned Canceled, the second
\* holds the slot and still waits
C3_Witness ==
    \E t, u \in Tasks :
        /\ t \in superseded /\ pc[t] = "done" /\ result[t] = "Canceled"
        /\ u # t /\ tper[u] = tper[t] /\ connecting[tper[t]] = u
        /\ pc[u] = "awaiting" /\ chan[u] = "pending"

\* C7: cancel_peripheral_connection called on a connected peripheral returns
\* only with a disconnect event of that very peripheral: the first one published
\* after the call subscribed, events of other peripherals published before it
\* being skipped.
C7_CancelReturnsMatchingDisconnect ==
    \A t \in Tasks : (op[t] = "cancel" /\ entry[t] = "Connected") =>
        /\ pc[t] # "idle"
        /\ pc[t] = "done" =>
              /\ result[t] = "Some"
              /\ retEv[t] \in (subAt[t] + 1)..Len(discLog)
              /\ discLog[retEv[t]] = tper[t]
              /\ \A k \in (subAt[t] + 1)..(retEv[t] - 1) : discLog[k] # tper[t]

\* A and B connected, cancel(A) called, B disconnected first and A second:
\* cancel(A) returned the second event
C7_Witness ==
    \E t \in Tasks :
        /\ op[t] = "cancel" /\ entry[t] = "Connected" /\ tper[t] = "A"
        /\ subAt[t] = 0
        /\ discLog = <<"B", "A">>
        /\ pc[t] = "done" /\ result[t] = "Some" /\ retEv[t] = 2

\* C12: cancel_peripheral_connection issues the platform cancel call, once,
\* exactly when the peripheral state it reads on entry is Connecting or
\* Connected; when that state is not Connected it returns None in that same
\* step, creating no receiver on the disconnects topic and never waiting.
C12_CancelIssuesIffConnectingOrConnected ==
    [][\A t \in Tasks : (last' = [act |-> "cancel", who |-> t, arg |-> "-"]) =>
         LET p == tper'[t] IN
         /\ (issued' = <<<<"cancel", p>>>>) <=> (pstate[p] \in {"Connecting", "Connected"})
         /\ issued' \in {<<>>, <<<<"cancel", p>>>>}
         /\ pstate[p] # "Connected" =>
               /\ pc'[t] = "done"
               /\ result'[t] = "None"
               /\ dpos'[t] = NoPos
               /\ disconnects' = disconnects]_vars

\* a cancel on a connecting peripheral: the platform call was issued and the
\* call returned None without a receiver
C12_Witness ==
    \E t \in Tasks :
        /\ last = [act |-> "cancel", who |-> t, arg |-> "-"]
        /\ entry[t] = "Connecting"
        /\ issued = <<<<"cancel", tper[t]>>>>
        /\ pc[t] = "done" /\ result[t] = "None" /\ dpos[t] = NoPos

\* C22: did_connect and did_fail_to_connect for a peripheral take the entry
\* of that peripheral's identifier only.  A connect that is pending on another
\* peripheral stays pending, and the entry of every other identifier stays as
\* it was; the waiter fulfilled, if any, is the one registered under the
\* callback's identifier.
C22_ConnectCallbackKeyedByPeripheral ==
    [][\A p \in Peripherals :
          (last'.act \in {"did_connect", "did_fail_to_connect"} /\ last'.who = p) =>
              /\ \A q \in Peripherals \ {p} : connecting'[q] = connecting[q]
              /\ connecting'[p] = NoTask
              /\ \A t \in Tasks :
                     /\ (chan[t] = "pending" /\ tper[t] # p) => chan'[t] = "pending"
                     /\ chan'[t] # chan[t] => (connecting[p] = t /\ tper[t] = p)]_vars

\* did_connect has just fulfilled the connect pending on its peripheral while
\* a connect on the other peripheral is pending, its entry in place
C22_Witness ==
    \E t, u \in Tasks :
        /\ last.act = "did_connect" /\ last.who = tper[t]
        /\ chan[t] = "Ok" /\ pc[t] = "awaiting"
        /\ tper[u] # tper[t] /\ op[u] = "connect"
        /\ chan[u] = "pending" /\ connecting[tper[u]] = u

\* C23: a connect that returns Canceled because a later connect on its
\* peripheral replaced its sender issues no platform cancel-connection call
\* for that peripheral while the later connect is still pending.
C23_SupersededReturnLeavesNewerConnect ==
    [][\A t \in Tasks :
          (/\ ReturnsConnect(t)
           /\ chan[t] = "Canceled"
           /\ \E u \in Tasks \ {t} :
                 /\ connecting[tper[t]] = u
                 /\ pc[u] = "awaiting" /\ chan[u] = "pending")
              => ~Issued(issued', <<"cancel", tper[t]>>)]_vars

\* the replaced connect has just returned Canceled and its cleanup cancelled
\* the connection the later connect, still pending, was waiting for
C23_Witness ==
    \E t, u \in Tasks :
        /\ last = [act |-> "connect_return", who |-> t, arg |-> "-"]
        /\ t \in superseded /\ result[t] = "Canceled"
        /\ issued = <<<<"cancel", tper[t]>>>>
        /\ u # t /\ connecting[tper[t]] = u
        /\ pc[u] = "awaiting" /\ chan[u] = "pending"
        /\ pstate[tper[t]] # "Connecting"

\* C27: the wait loop of cancel_peripheral_connection does not reach its
\* unreachable!(): no cancel call panics, whatever is published on the
\* disconnects topic while it waits.
C27_WaitLoopNeverPanics ==
    \A t \in Tasks : op[t] = "cancel" => pc[t] # "panicked"

\* cancel(A) subscribed, more disconnects of B than the topic holds were
\* published before it was polled, and the poll ended in unreachable!()
C27_Witness ==
    \E t \in Tasks :
        /\ op[t] = "cancel" /\ entry[t] = "Connected" /\ tper[t] = "A"
        /\ pc[t] = "panicked" /\ result[t] = "Panic"
        /\ Len(discLog) - subAt[t] > Cap
        /\ \A k \in (subAt[t] + 1)..Len(discLog) : discLog[k] = "B"

\* C38: when did_connect or did_fail_to_connect runs for P while a connect on
\* P is waiting and holds P's entry of the connecting map, the callback takes
\* the entry out of the map and hands the outcome to that connect; the connect,
\* unless its future is dropped, eventually returns with that outcome, and once
\* it has returned with it the map holds no entry of that connect.
C38_DeliveredConnectCompletes ==
    /\ [][\A t \in Tasks :
            (pc[t] = "awaiting" /\ op[t] = "connect" /\ chan[t] = "pending"
               /\ connecting[tper[t]] = t
               /\ last'.act \in {"did_connect", "did_fail_to_connect"}
               /\ last'.who = tper[t])
            => /\ connecting'[tper[t]] = NoTask
               /\ chan'[t] = IF last'.act = "did_connect" THEN "Ok" ELSE last'.arg]_vars
    /\ \A t \in Tasks : \A v \in {"Ok"} \cup ConnectErrors :
          (pc[t] = "awaiting" /\ op[t] = "connect" /\ chan[t] = v)
             ~> ((pc[t] = "done" /\ result[t] = v) \/ pc[t] = "dropped")
    /\ [](\A t \in Tasks :
             (pc[t] = "done" /\ op[t] = "connect"
                /\ result[t] \in {"Ok"} \cup ConnectErrors)
             => connecting[tper[t]] # t)

\* the only connect on its peripheral returned the error that
\* did_fail_to_connect reported, and the map has no entry for the peripheral
C38_Witness ==
    \E t \in Tasks :
        /\ last = [act |-> "connect_return", who |-> t, arg |-> "-"]
        /\ result[t] \in ConnectErrors
        /\ connecting[tper[t]] = NoTask
        /\ pstate[tper[t]] = "Disconnected"
        /\ \A u \in Tasks \ {t} : op[u] = "connect" => tper[u] # tper[t]

-----------------------------------------------------------------------------
(* Claims about scan and did_discover *)

\* what the receiver of scan() call g has yielded, followed by what is queued
\* for it
Delivered(g) == sgot[g] \o sq[g]

\* C4: the did_discover callbacks delivered while the receiver returned by
\* scan() is alive reach that receiver exactly once each and in callback
\* order: what it has yielded so far is a prefix of them, what it has yielded
\* together with what is queued for it is all of them, and once it has read
\* everything queued it has yielded exactly them.
C4_ScanYieldsEveryDiscoveryInOrder ==
    \A g \in Gens :
        rxAlive[g] =>
            /\ Delivered(g) = expected[g]
            /\ Len(sgot[g]) <= Len(expected[g])
            /\ sgot[g] = SubSeq(expected[g], 1, Len(sgot[g]))
            /\ \A i, j \in 1..Len(Delivered(g)) :
                   i < j => Delivered(g)[i].seq < Delivered(g)[j].seq

C4_Witness ==
    \E g \in Gens :
        /\ rxAlive[g]
        /\ sq[g] = <<>>
        /\ Len(sgot[g]) = MaxDiscoveries
        /\ sgot[g] = expected[g]

\* C5: the first did_discover callback after the receiver returned by scan()
\* was dropped issues exactly one platform call, stop_scan, delivers nothing to
\* any receiver, and leaves the discoveries cell empty.
C5_DiscoveryAfterDropStopsScan ==
    [][(slast' = "did_discover" /\ stale) =>
          /\ scalls' = <<"stop_scan">>
          /\ ~isScanning'
          /\ discoveries' = NoScan
          /\ sq' = sq
          /\ sgot' = sgot]_vars

C5_Witness ==
    /\ slast = "did_discover"
    /\ scalls = <<"stop_scan">>
    /\ discoveries = NoScan
    /\ nScans # NoScan
    /\ ~rxAlive[nScans]
    /\ ~isScanning

\* C6: scan() called while the platform is scanning panics without issuing a
\* platform call and without touching the discoveries cell or any channel, and
\* the receiver of the running scan, while alive, keeps its sender in the cell.
C6_ScanWhileScanningPanics ==
    /\ [][(slast' \in {"scan", "scan_panic"} /\ isScanning) =>
            /\ slast' = "scan_panic"
            /\ scalls' = <<>>
            /\ UNCHANGED <<isScanning, discoveries, rxAlive, sq, sgot, nScans>>]_vars
    /\ [](nScans # NoScan /\ rxAlive[nScans] => discoveries = nScans)

C6_Witness ==
    /\ slast = "scan_panic"
    /\ isScanning
    /\ nScans # NoScan
    /\ rxAlive[nScans]
    /\ discoveries = nScans
    /\ expected[nScans] # <<>>

\* C13: dropping the scan receiver issues no platform call and leaves the
\* scan running; from the drop until the first did_discover after it only the
\* application's own stop_scan() (or a new scan()) changes whether the platform
\* scans; that first did_discover stops the scan and empties the cell, so that
\* for each receiver at most one discovery is sent to it in vain.
C13_DropLeavesScanUntilNextDiscovery ==
    /\ [][/\ slast' = "drop" => (scalls' = <<>> /\ isScanning' = isScanning)
          /\ (stale /\ slast' \notin {"stop_scan", "did_discover", "scan"})
                => isScanning' = isScanning
          /\ (stale /\ slast' = "did_discover")
                => (~isScanning' /\ ~stale' /\ discoveries' = NoScan)]_vars
    /\ [](\A g \in Gens : lost[g] <= 1)

\* the receiver was dropped after it had read a discovery, the scan is still
\* running and the platform has queued a further discovery
C13_Witness ==
    /\ stale
    /\ isScanning
    /\ slast = "advertisement"
    /\ inflight > 0
    /\ sgot[nScans] # <<>>

\* C35 as the specification states it: a scan() call made while the cell
\* stores a sender is rejected and leaves the stored sender in place.
C35_OccupiedSlotRejectsScan ==
    [][(slast' \in {"scan", "scan_panic"} /\ discoveries # NoScan) =>
          /\ slast' = "scan_panic"
          /\ discoveries' = discoveries]_vars

\* C35, as the code behaves: scan() looks at the platform's is_scanning() and
\* never at the cell.  It panics exactly when the platform is scanning; called
\* while the platform is not scanning it issues the platform scan call and
\* stores a new sender, replacing a stored one without notice and leaving the
\* earlier receiver as it is.  The cell holds one sender, so every discovery
\* is queued for at most one receiver, the one whose sender is stored.
C35_ScanReplacesStoredSender ==
    [][/\ slast' = "scan_panic" => (isScanning /\ discoveries' = discoveries)
       /\ slast' = "scan" =>
            /\ ~isScanning /\ isScanning'
            /\ scalls' = <<"scan">>
            /\ nScans' = nScans + 1
            /\ discoveries' = nScans'
            /\ rxAlive' = [rxAlive EXCEPT ![nScans'] = TRUE]
            /\ sq' = sq
       /\ \A g \in Gens :
            Len(sq'[g]) > Len(sq[g]) => (g = discoveries /\ g = discoveries')]_vars

\* the second scan() replaced the sender of the first while the first
\* receiver was still held; a discovery then went to the second receiver only
C35_Witness ==
    /\ nScans = 2
    /\ discoveries = 2
    /\ rxAlive[1] /\ rxAlive[2]
    /\ lost[1] = 0
    /\ slast = "did_discover"
    /\ Len(Delivered(2)) = 1
    /\ Len(Delivered(1)) = nCb - 1

\* C36: a scan started again after an earlier one was abandoned works as a
\* first scan does: while the receiver of the restarted scan is held, every
\* did_discover callback queues its discovery for that receiver, behind those
\* queued before, issues no platform call, leaves the scan running if it was,
\* loses nothing and keeps the new sender in the cell, whether or not the cell
\* still stored the first scan's sender when the scan was started again.
C36_RestartedScanReceivesEveryDiscovery ==
    [][(slast' = "did_discover" /\ nScans > 1 /\ rxAlive[nScans]) =>
          /\ discoveries = nScans /\ discoveries' = nScans
          /\ scalls' = <<>>
          /\ isScanning' = isScanning
          /\ lost' = lost
          /\ Len(sq'[nScans]) = Len(sq[nScans]) + 1
          /\ SubSeq(sq'[nScans], 1, Len(sq[nScans])) = sq[nScans]
          /\ sq'[nScans][Len(sq'[nScans])].seq = nCb + 1]_vars

\* the first receiver was dropped and no send on its sender ever failed, so
\* its sender was still in the cell when the application, having stopped the
\* scan, started the second; the second receiver got a discovery
C36_Witness ==
    /\ nScans = 2
    /\ ~rxAlive[1]
    /\ lost[1] = 0
    /\ rxAlive[2]
    /\ discoveries = 2
    /\ isScanning
    /\ slast = "did_discover"
    /\ Delivered(2) # <<>>
    /\ Delivered(2) = expected[2]

\* C37: for one abandoned scan the delegate issues stop_scan at most once.  A
\* did_discover callback that finds the cell empty issues no platform call and
\* delivers nothing; one whose send succeeds leaves the sender in the cell and
\* issues no platform call; one whose send fails (the receiver is dropped)
\* issues stop_scan and empties the cell, so that no later callback sends on
\* that sender again: each sender sees at most one failed send.
C37_StopScanAtMostOncePerScan ==
    [][/\ slast' = "did_discover" =>
            /\ discoveries = NoScan =>
                  (scalls' = <<>> /\ discoveries' = NoScan /\ sq' = sq
                   /\ isScanning' = isScanning /\ lost' = lost)
            /\ (discoveries # NoScan /\ rxAlive[discoveries]) =>
                  (scalls' = <<>> /\ discoveries' = discoveries /\ lost' = lost
                   /\ Len(sq'[discoveries]) = Len(sq[discoveries]) + 1)
            /\ (discoveries # NoScan /\ ~rxAlive[discoveries]) =>
                  (scalls' = <<"stop_scan">> /\ discoveries' = NoScan /\ sq' = sq
                   /\ lost[discoveries] = 0 /\ lost'[discoveries] = 1)
       /\ \A g \in Gens : lost'[g] <= 1]_vars

\* the receiver was dropped, the next callback stopped the scan and emptied
\* the cell, and a callback that was already queued then found the cell empty
C37_Witness ==
    /\ nScans = 1
    /\ lost[1] = 1
    /\ nCb = 2
    /\ slast = "did_discover"
    /\ scalls = <<>>
    /\ discoveries = NoScan
    /\ ~isScanning

-----------------------------------------------------------------------------
(* Claims about characteristic values *)

\* the read r has returned
ReadDone(r) == rkind[r] = "read" /\ rstate[r] = "done"

\* C11: what read_characteristic_value returns is the update of the first
\* did_update_value_for_characteristic callback of its characteristic that ran
\* after the read was issued: that callback's result and, on success, the value
\* the characteristic had when that callback ran, whatever the value was when
\* the read was issued and whatever it is when the read returns.
C11_ReadReturnsValueAtCallback ==
    \A r \in ValueReceivers : ReadDone(r) =>
        LET g == rgot[r][1]
            c == rchar[r]
        IN /\ Len(rgot[r]) = 1
           /\ g.seq = rfrom[r] + 1
           /\ g.seq <= Len(fired[c])
           /\ g.kind = fired[c][g.seq].res
           /\ g.kind = "Ok" => g.val = fired[c][g.seq].val

\* a read returned a value that the characteristic neither had when the read
\* was issued nor has now
C11_Witness ==
    \E r \in ValueReceivers :
        /\ ReadDone(r)
        /\ rgot[r][1].kind = "Ok"
        /\ rgot[r][1].val # rcached[r]
        /\ rgot[r][1].val # cval[rchar[r]]

\* the updates queued on its topic that the open receiver r has not read yet
Unread(r) ==
    LET ch == cvu[rchar[r]].ch
        first == rcur[r] - ch.head_pos + 1
    IN [k \in 1..(Len(ch.queue) - first + 1) |-> ch.queue[first + k - 1].msg]

\* C16: the topic of a characteristic, created by the first subscription, is
\* the one every later subscription and read of that characteristic uses: all
\* open receivers of a characteristic are on its current topic. Every stream
\* receives each update published since it subscribed, once and in order: what
\* it has yielded followed by what is queued for it is the whole series of the
\* characteristic's callbacks since its subscription (fewer than 16 updates
\* are ever unread).
C16_ValueTopicSharedAndComplete ==
    \A r \in ValueReceivers : rstate[r] = "open" =>
        LET c == rchar[r]
            all == rgot[r] \o Unread(r)
        IN /\ cvu[c].present
           /\ rtid[r] = cvu[c].id
           /\ rcur[r] >= cvu[c].ch.head_pos
           /\ Len(all) = Len(fired[c]) - rfrom[r]
           /\ Len(all) < Cap
           /\ \A k \in 1..Len(all) :
                 /\ all[k].seq = rfrom[r] + k
                 /\ all[k].kind = fired[c][rfrom[r] + k].res

\* two streams of one characteristic have each yielded two updates, and a
\* read of that characteristic issued later returned from the same topic
C16_Witness ==
    \E a, b, d \in ValueReceivers :
        /\ a # b
        /\ rstate[a] = "open" /\ rstate[b] = "open"
        /\ rkind[a] = "stream" /\ rkind[b] = "stream"
        /\ rchar[a] = rchar[b] /\ rchar[d] = rchar[a]
        /\ Len(rgot[a]) = 2 /\ rgot[b] = rgot[a]
        /\ ReadDone(d)
        /\ rtid[d] = rtid[a] /\ rtid[b] = rtid[a]

\* C25: a did_update_value_for_characteristic callback that finds the topic
\* of its characteristic in the map with no receiver left removes the topic
\* from the map and publishes nothing.
C25_ZeroReceiverTopicRemoved ==
    [][\A c \in Chars :
          (/\ fired'[c] # fired[c]
           /\ cvu[c].present
           /\ cvu[c].ch.receiver_count = 0)
              => /\ ~cvu'[c].present
                 /\ \A d \in Chars \ {c} : cvu'[d] = cvu[d]]_vars

\* the callback ran for a characteristic whose only stream had been dropped:
\* it panicked and the topic is still in the map
C25_Witness ==
    \E c \in Chars :
        /\ vpanic = c
        /\ cvu[c].present /\ cvu[c].ch.receiver_count = 0
        /\ \E r \in ValueReceivers :
              rchar[r] = c /\ rkind[r] = "stream" /\ rstate[r] = "dropped"

\* C26: no callback and no accessor of the delegate panics on a RefCell
\* borrow: borrow_mut() is never called on a map while a borrow() of that map
\* is live, the callback for a characteristic whose read has completed and
\* dropped its receiver included.
C26_NoBorrowPanic == vpanic = "-"

\* a read of the characteristic completed and dropped its receiver, the next
\* callback for the characteristic found the topic without receivers and
\* panicked in borrow_mut()
C26_Witness ==
    \E c \in Chars :
        /\ vpanic = c
        /\ Len(fired[c]) = 2
        /\ \E r \in ValueReceivers :
              /\ rchar[r] = c /\ ReadDone(r)
              /\ \A u \in ValueReceivers \ {r} : rchar[u] # c

-----------------------------------------------------------------------------
(* Claims about ready_to_send_write_without_response *)

\* the waiting call w would complete if it were polled now
Woken(w) == try_recv_at(readyTopic, qcur[w]).res.kind # "Empty"

\* C14: a call of ready_to_send_write_without_response that found no capacity
\* holds a receiver of the ready topic from the very step of its check on, so
\* it is woken exactly when at least one ready callback has run since the call:
\* the first such callback wakes it, and none is missed.
C14_ReadyCallbackWakesWaiter ==
    /\ \A w \in ReadyWaiters : qpc[w] = "awaiting" =>
          /\ qcur[w] # NoPos
          /\ Woken(w) <=> qsince[w] >= 1
    /\ readyTopic.receiver_count = Cardinality({w \in ReadyWaiters : qpc[w] = "awaiting"})

\* a call that found no capacity was woken by the one ready callback that ran
\* since
C14_Witness ==
    \E w \in ReadyWaiters :
        /\ qpc[w] = "awaiting"
        /\ qsince[w] = 1
        /\ Woken(w)

\* C15 as stated: the call returns Ok at once and without a receiver when the
\* platform has capacity; otherwise it waits until a ready callback has run
\* after its subscription and then returns Ok, however many ready callbacks
\* ran before the waiter is polled.
C15_ReadyReturnsOk ==
    \A w \in ReadyWaiters :
        /\ qpc[w] = "done" => qres[w] = "Ok"
        /\ (qpc[w] = "awaiting" /\ ~Woken(w)) => qsince[w] = 0

\* two ready callbacks ran before the waiting call was polled, and the call
\* returned the Lagged error
C15_Witness ==
    \E w \in ReadyWaiters :
        /\ qpc[w] = "done"
        /\ qsince[w] = 2
        /\ qres[w] = "Lagged"

-----------------------------------------------------------------------------
(* Claims about the maps of one-shot senders *)

\* the waiters whose sender is still pending under key k of map mp
PendingAt(mp, k) ==
    {w \in Waiters : wmap[w] = mp /\ wkey[w] = k /\ wchan[w] = "pending"}

\* C19: in each of the eight maps a key has at most one pending sender, namely
\* the one the map holds; a registration for a key whose sender is pending
\* takes the entry over and cancels the replaced waiter's channel, which then
\* returns the Canceled error once polled and does not hang; a callback
\* fulfils nobody but the waiter whose entry the map holds, the latest one.
C19_OnePendingSenderPerKey ==
    /\ [](\A mp \in OneshotMaps, k \in Keys :
            /\ Cardinality(PendingAt(mp, k)) <= 1
            /\ \A w \in PendingAt(mp, k) : omap[mp][k] = w)
    /\ [](\A w \in Waiters :
            (wpc[w] = "done" /\ wchan[w] = "SenderDropped") => wres[w] = "Canceled")
    /\ [][/\ \A w \in Waiters : (olast' = [act |-> "register", who |-> w]) =>
                LET u == omap[wmap'[w]][wkey'[w]]
                IN /\ omap'[wmap'[w]][wkey'[w]] = w
                   /\ wchan'[w] = "pending"
                   /\ (u # NoWaiter /\ wchan[u] = "pending") => wchan'[u] = "SenderDropped"
          /\ olast'.act = "callback" =>
                \A w \in Waiters : wchan'[w] # wchan[w] =>
                    /\ w = olast'.who
                    /\ omap[wmap[w]][wkey[w]] = w
                    /\ wchan[w] = "pending"]_vars
    /\ \A w \in Waiters : (wchan[w] = "SenderDropped") ~> (wpc[w] \in {"done", "dropped"})

\* two registrations for one key: the replaced waiter returned Canceled, the
\* later one was fulfilled by the callback and returned its result
C19_Witness ==
    \E u, w \in Waiters :
        /\ u # w /\ wmap[u] = wmap[w] /\ wkey[u] = wkey[w]
        /\ wpc[u] = "done" /\ wres[u] = "Canceled" /\ wful[u] = 0
        /\ wpc[w] = "done" /\ wres[w] = "Ok" /\ wful[w] = 1

\* C20: a completion callback that finds an entry under its key removes it
\* and sends its result through it, which fulfils the waiter if it still
\* waits; one that finds none changes neither a map nor a channel nor a call;
\* no waiter is fulfilled twice.
C20_CallbackRemovesAndFulfilsOnce ==
    /\ [][olast'.act = "callback" =>
            IF olast'.who = NoWaiter
            THEN UNCHANGED <<omap, wpc, wmap, wkey, wchan, wres, wful>>
            ELSE LET w == olast'.who
                 IN /\ omap[wmap[w]][wkey[w]] = w
                    /\ omap'[wmap[w]][wkey[w]] = NoWaiter
                    /\ wchan[w] = "pending" =>
                          (wchan'[w] \in CallbackResults /\ wful'[w] = wful[w] + 1)
                    /\ wchan[w] # "pending" => (wchan'[w] = wchan[w] /\ wful' = wful)
                    /\ \A u \in Waiters \ {w} : wchan'[u] = wchan[u]
                    /\ UNCHANGED <<wpc, wres>>]_vars
    /\ [](\A w \in Waiters : wful[w] <= 1)

\* a callback for the key of a waiter that was already fulfilled and returned
\* found no entry
C20_Witness ==
    /\ olast = [act |-> "callback", who |-> NoWaiter]
    /\ \E w \in Waiters :
          /\ wful[w] = 1 /\ wpc[w] = "done"
          /\ omap[wmap[w]][wkey[w]] = NoWaiter

\* C21: the callback that answers a request of one operation touches the map
\* of that operation only.  A waiter of another operation that is pending,
\* under the same key or another, stays pending with its entry in place, and
\* the map of every other operation is left as it was.
C21_CallbackLeavesOtherKinds ==
    [][\A u \in Waiters :
          (wreq[u] = "issued" /\ wreq'[u] = "answered") =>
              /\ \A call \in Ops \ {wop[u]} :
                     omap'[accessor_map(call)] = omap[accessor_map(call)]
              /\ \A w \in Waiters :
                     (wchan[w] = "pending" /\ wop[w] # wop[u]) =>
                         /\ wchan'[w] = "pending"
                         /\ omap'[wmap[w]][wkey[w]] = omap[wmap[w]][wkey[w]]]_vars

\* a callback has just fulfilled the waiter of its own request while a waiter
\* of another operation is pending under the same key
C21_Witness ==
    /\ olast.act = "callback"
    /\ \E u, w \in Waiters :
          /\ olast.who = u /\ wby[u] = u /\ wreq[u] = "answered"
          /\ wop[w] \notin {"-", wop[u]}
          /\ wkey[w] = wkey[u]
          /\ wchan[w] = "pending" /\ omap[wmap[w]][wkey[w]] = w

\* C24: a waiter is fulfilled only by the callback that answers the request
\* of its own call, never by the callback of a request whose call was dropped
\* or replaced before.
C24_FulfilledByOwnRequestOnly ==
    \A w \in Waiters : wby[w] \in {NoWaiter, w}

\* the first write on a key was replaced by a second one and returned
\* Canceled; the callback of the first write's request then fulfilled the
\* second waiter, whose own request the platform has not answered yet
C24_Witness ==
    \E u, w \in Waiters :
        /\ u # w
        /\ wop[u] = "write_characteristic_value" /\ wop[w] = wop[u]
        /\ wkey[u] = wkey[w]
        /\ wres[u] = "Canceled"
        /\ wby[w] = u /\ wful[w] = 1
        /\ wreq[w] = "issued"

\* the other calls made on the map and key of waiter u's call
SameSlot(u) ==
    {x \in RequestWaiters \ {u} :
        wpc[x] # "idle" /\ wmap[x] = wmap[u] /\ wkey[x] = wkey[u]}

C32_CallbackAfterDropIsNoOp ==
    [][\A u \in RequestWaiters :
          (wpc[u] = "dropped" /\ wreq[u] = "issued" /\ wreq'[u] = "answered")
          => /\ omap[wmap[u]][wkey[u]] = NoWaiter
             /\ omap' = omap
             /\ wchan' = wchan]_vars

\* a call was dropped, a later call registered on the same key, and the
\* callback answering the dropped call's request fulfilled the later call
C32_Witness ==
    \E u, x \in RequestWaiters :
        /\ u # x
        /\ wpc[u] = "dropped"
        /\ wreq[u] = "answered"
        /\ wreq[x] = "issued"
        /\ wpc[x] = "awaiting"
        /\ wby[x] = u

\* C39: a peripheral has one pending L2CAP-open slot, whatever the PSMs: at
\* most one open_l2cap_channel call has a pending channel, and it is the one
\* whose sender the cell stores.  A call registered while another is pending,
\* on the same PSM or not, takes the cell and cancels the earlier call, which
\* returns Canceled.  did_open_l2cap_channel empties the cell and fulfils the
\* call whose sender it stored, the latest registered, and no other; with an
\* empty cell it changes nothing.
C39_OneL2capSlotPerPeripheral ==
    [][/\ \A w \in Waiters :
            wchan[w] = "pending" => l2cap_channel_opened = w
       /\ \A w \in Waiters :
            (olast' = [act |-> "register", who |-> w] /\ wpc[w] = "idle") =>
               /\ l2cap_channel_opened' = w
               /\ \A x \in Waiters \ {w} :
                     wchan'[x] = IF wchan[x] = "pending" THEN "SenderDropped"
                                 ELSE wchan[x]
       /\ \A w \in Waiters :
            (olast' = [act |-> "return", who |-> w] /\ wpc[w] = "awaiting"
               /\ wchan[w] = "SenderDropped") => wres'[w] = "Canceled"
       /\ (olast'.act = "callback" /\ wreq' # wreq) =>
            /\ l2cap_channel_opened' = NoWaiter
            /\ olast'.who = l2cap_channel_opened
            /\ \A x \in Waiters :
                  /\ x # l2cap_channel_opened => wchan'[x] = wchan[x]
                  /\ wful'[x] <= 1
            /\ l2cap_channel_opened = NoWaiter
                  => (wchan' = wchan /\ wful' = wful /\ wby' = wby)]_vars

\* two opens on different PSMs were registered before any callback: the first
\* returned Canceled, the first callback (the answer to the first request)
\* fulfilled the second, and the second callback found the cell empty
C39_Witness ==
    \E w, x \in Waiters :
        /\ wkey[w] = "psm1" /\ wkey[x] = "psm2"
        /\ wop[w] = "open_l2cap_channel" /\ wop[x] = "open_l2cap_channel"
        /\ wres[w] = "Canceled"
        /\ wby[x] = w /\ wful[x] = 1
        /\ wreq[x] = "answered"
        /\ olast = [act |-> "callback", who |-> NoWaiter]
        /\ l2cap_channel_opened = NoWaiter

\* C17: the kind the caller reads from an error tells where the failure came
\* from.  A dropped one-shot sender (oneshot::Canceled) reads as Canceled; a
\* broadcast receiver that fell behind (RecvError::Overflowed) reads as Lagged;
\* a failure reported by the platform reads as Bluetooth(code) when its NSError
\* is in CBErrorDomain, ATT(code) when it is in CBATTErrorDomain, Other for any
\* other domain, and as the platform kind itself when there is no NSError: never
\* as Canceled or Lagged.
C17_KindTellsTheSource ==
    epc = "read" =>
        /\ esrc.type = "oneshot::Canceled" => ekind = Kind("Canceled", 0)
        /\ (esrc.type = "RecvError" /\ esrc.variant = "Overflowed")
               => ekind = Kind("Lagged", 0)
        /\ esrc.type \in {"platform", "platform kind"} =>
               /\ ekind.tag \in {"Bluetooth", "ATT", "Other"}
               /\ esrc.variant = "NSError" =>
                      /\ esrc.nserror.domain = "CBErrorDomain"
                             => ekind = Kind("Bluetooth", esrc.nserror.code)
                      /\ esrc.nserror.domain = "CBATTErrorDomain"
                             => ekind = Kind("ATT", esrc.nserror.code)
                      /\ esrc.nserror.domain \notin {"CBErrorDomain", "CBATTErrorDomain"}
                             => ekind = Kind("Other", 0)
               /\ esrc.variant # "NSError" => ekind = esrc.kind

\* a lagging receiver's error has been read as Lagged
C17_Witness ==
    /\ epc = "read"
    /\ esrc.type = "RecvError"
    /\ esrc.variant = "Overflowed"
    /\ ekind = Kind("Lagged", 0)

\* receiver r has read everything the topic holds
ReadAll(r) == rpos[r] >= topic.head_pos + Len(topic.queue)

\* C18 as the specification states it: once the delegate has been dropped, a
\* receiver that has read everything has its receive pending, and no receive
\* has completed with an error for the channel being gone.
C18_ReceiveStaysPending ==
    torn =>
        /\ ended = {}
        /\ \A r \in Receivers :
               (rpos[r] # NoPos /\ r \notin ended /\ ReadAll(r))
                   => try_recv_at(topic, rpos[r]).res.kind = "Empty"

\* C18, as the code behaves: once the delegate has been dropped no event is
\* published any more; a receiver obtained from it still yields, in order, the
\* events queued before the drop, and then its receive completes with
\* RecvError::Closed (kind Lagged once converted to this crate's Error): no
\* receive is left pending on the closed channel.
C18_TeardownEndsSubscriptions ==
    /\ [](torn => \A r \in Receivers :
                      (rpos[r] # NoPos /\ r \notin ended)
                          => try_recv_at(topic, rpos[r]).res.kind # "Empty")
    /\ [][torn =>
            /\ published' = published
            /\ \A r \in Receivers :
                   got'[r] # got[r] =>
                       LET x == got'[r][Len(got'[r])]
                       IN IF ReadAll(r)
                          THEN /\ x = [kind |-> "Lagged", val |-> 0]
                               /\ r \in ended'
                          ELSE /\ x.kind \in {"Ok", "Lagged"}
                               /\ x.kind = "Ok" => x.val \in 1..published
                               /\ x.kind = "Lagged" => x.val > 0
                               /\ r \notin ended']_vars

\* the delegate has been dropped and both receivers, having read an event,
\* found the channel closed
C18_Witness ==
    /\ torn
    /\ ended = {"r1", "r2"}
    /\ \A r \in ended : Len(got[r]) >= 2 /\ got[r][Len(got[r]) - 1].kind = "Ok"

-----------------------------------------------------------------------------
(* The Broadcast topic scenarios *)

NextTopic ==
    \/ Publish
    \/ \E r \in Receivers : Recv(r)

Init3 == InitTopic(Receivers, MaxPublish3) /\ InitConn /\ InitScan /\ InitPeripheral

SpecBroadcast3 == Init3 /\ [][NextTopic]_vars

NextTeardown ==
    \/ Publish
    \/ \E r \in Receivers : Recv(r)
    \/ Teardown

\* publishes made before the delegate is dropped, at most
MaxPublishTeardown == 3

InitTeardown ==
    InitTopic({"r1", "r2"}, MaxPublishTeardown) /\ InitConn /\ InitScan /\ InitPeripheral

\* the topic of a delegate that is dropped while its receivers live on
SpecTeardown == InitTeardown /\ [][NextTeardown]_vars

\* callbacks that publish on the topic of the subscription scenario
MaxPublishWatch == 3

\* the receivers of the subscription scenario
Subscribers == {"r1", "r2"}

\* a topic as the delegates create them, a Watch topic (watch()) or a
\* Broadcast topic (broadcast(16)), and nobody subscribed yet
InitSubscribe ==
    /\ topic \in {watch, broadcast(Cap)}
    /\ rpos = [r \in Receivers |-> NoPos]
    /\ got = [r \in Receivers |-> <<>>]
    /\ idle = [r \in Receivers |-> 0]
    /\ published = 0
    /\ lastPub = "none"
    /\ maxPub = MaxPublishWatch
    /\ torn = FALSE
    /\ ended = {}
    /\ InitConn /\ InitScan /\ InitPeripheral

NextSubscribe ==
    \/ Publish
    \/ \E r \in Subscribers : Subscribe(r)
    \/ \E r \in Subscribers : Recv(r)
    \/ \E r \in Subscribers : Unsubscribe(r)

\* receivers that subscribe to a topic while callbacks publish on it
SpecSubscribe == InitSubscribe /\ [][NextSubscribe]_vars

InitLag == InitTopic({"r1"}, MaxPublishLag) /\ InitConn /\ InitScan /\ InitPeripheral

SpecLag == InitLag /\ [][NextTopic]_vars

-----------------------------------------------------------------------------
(* Claims about the Broadcast topic *)

Last(q) == q[Len(q)]

\* the events 1..k, as r reads them when it misses none
InOrder(q) == \A i \in 1..Len(q) : q[i].kind = "Ok" /\ q[i].val = i

\* nothing is left for r to read
Drained(r) == try_recv_at(topic, rpos[r]).res.kind = "Empty"

\* r's recv() returns in this step
Reads(r) == got'[r] # got[r]

\* C8: on the capacity-16 topic with three receivers created before the first
\* publish, whatever the interleaving of the 10 publishes and the reads, each
\* receiver reads the events 1, 2, ... in publish order, none twice, none
\* skipped, never a Lagged error, and once everything is published and nothing
\* is left to read each of the three has read all of them.
C8_ThreeReceiversReadAll ==
    /\ topic.capacity = Cap
    /\ \A r \in Receivers :
          /\ InOrder(got[r])
          /\ Len(got[r]) <= published
          /\ (published = maxPub /\ Drained(r)) => Len(got[r]) = maxPub

\* all 10 events published and read by all three, one receiver having read
\* nothing before the last publish and another having kept pace from the first
C8_Witness ==
    /\ published = MaxPublish3
    /\ \A r \in Receivers : Len(got[r]) = MaxPublish3 /\ Last(got[r]).val = MaxPublish3
    /\ idle = [r \in Receivers |-> 0]

\* C9 as stated: a receiver that did not read while more than capacity events
\* were published gets Lagged on its next read, every read after a Lagged
\* error succeeds, and no publish was refused.
C9_Original ==
    /\ [][\A r \in Receivers : Reads(r) =>
            /\ idle[r] > topic.capacity => Last(got'[r]).kind = "Lagged"
            /\ (got[r] # <<>> /\ Last(got[r]).kind = "Lagged") => Last(got'[r]).kind = "Ok"]_vars
    /\ [](lastPub \in {"none", "Ok"})

\* C9 (amended): a receiver that did not read while more than capacity events
\* were published gets Lagged on its next read; the read after a Lagged error
\* succeeds and returns the oldest retained event when no event was published
\* between the error and that read; no publish was ever refused (the publisher
\* is never blocked).
C9_LaggedThenOldestRetained ==
    /\ [][\A r \in Receivers : Reads(r) =>
            /\ idle[r] > topic.capacity => Last(got'[r]).kind = "Lagged"
            /\ (got[r] # <<>> /\ Last(got[r]).kind = "Lagged" /\ idle[r] = 0) =>
                  /\ topic.queue # <<>>
                  /\ Last(got'[r]).kind = "Ok"
                  /\ Last(got'[r]).val = topic.queue[1].msg
                  /\ Last(got'[r]).val = published - topic.capacity + 1]_vars
    /\ [](lastPub \in {"none", "Ok"})

\* a Lagged read after more than 16 publishes, then two successful reads with
\* no publish in between
C9_Witness ==
    \E r \in Receivers :
        /\ Len(got[r]) = 3
        /\ got[r][1].kind = "Lagged"
        /\ got[r][2].kind = "Ok" /\ got[r][2].val = published - Cap + 1
        /\ got[r][3].kind = "Ok" /\ got[r][3].val = published - Cap + 2
        /\ published > Cap

\* C10 as stated: after 20 publishes into the capacity-16 topic, read by one
\* subscriber that stayed idle, the first read returns Lagged and the second
\* read returns the 5th-from-last event (event 16 of 20) or a later one.
C10_Original ==
    [][\A r \in Receivers : (Reads(r) /\ published = maxPub) =>
         /\ got[r] = <<>> => Last(got'[r]).kind = "Lagged"
         /\ (Len(got[r]) = 1 /\ got[r][1] = [kind |-> "Lagged", val |-> maxPub - Cap]) =>
               /\ Last(got'[r]).kind = "Ok"
               /\ Last(got'[r]).val >= maxPub - 5 + 1]_vars

\* C10 (amended): after 20 publishes into the capacity-16 topic, read by one
\* subscriber that stayed idle, the first read returns Lagged (4 events were
\* dropped) and the second read returns the 5th published event, the oldest of
\* the 16 retained (the 16th-from-last).
C10_SecondReadIsOldestRetained ==
    [][\A r \in Receivers : (Reads(r) /\ published = maxPub) =>
         /\ got[r] = <<>> => Last(got'[r]) = [kind |-> "Lagged", val |-> maxPub - Cap]
         /\ (Len(got[r]) = 1 /\ got[r][1] = [kind |-> "Lagged", val |-> maxPub - Cap]) =>
               Last(got'[r]) = [kind |-> "Ok", val |-> maxPub - Cap + 1]]_vars

\* 20 events published, then the idle subscriber read Lagged and event 5
C10_Witness ==
    /\ published = MaxPublishLag
    /\ topic.capacity = 16
    /\ got["r1"] = <<[kind |-> "Lagged", val |-> 4], [kind |-> "Ok", val |-> 5]>>

\* receiver r exists and has not been read from yet
Fresh(r) == rpos[r] # NoPos /\ got[r] = <<>>

\* C28: a receiver newly subscribed to a Watch topic on which a value was
\* published before has that value ready at once: its first read yields the
\* latest published value without waiting for another publish.
C28_NewReceiverSeesLatest ==
    \A r \in Receivers :
        (topic.capacity = WatchCap /\ Fresh(r) /\ idle[r] = 0 /\ published > 0)
            => try_recv_at(topic, rpos[r]).res = [kind |-> "Ok", val |-> published]

\* a value was published on the Watch topic and read by the receiver that was
\* subscribed then; the receiver subscribed afterwards has nothing to read
C28_Witness ==
    \E r, q \in Receivers :
        /\ topic.capacity = WatchCap
        /\ published = 1
        /\ got[q] = <<[kind |-> "Ok", val |-> 1]>>
        /\ Fresh(r) /\ idle[r] = 0
        /\ try_recv_at(topic, rpos[r]).res.kind = "Empty"

\* C29: a receiver of a Watch topic never reads a Lagged error, however many
\* values were published between two of its reads.
C29_WatchNeverLags ==
    topic.capacity = WatchCap =>
        \A r \in Receivers : \A i \in 1..Len(got[r]) : got[r][i].kind # "Lagged"

\* two values were published on the Watch topic after the receiver subscribed
\* and before it read: its first read returned Lagged
C29_Witness ==
    \E r \in Receivers :
        /\ topic.capacity = WatchCap
        /\ published = 2
        /\ got[r] = <<[kind |-> "Lagged", val |-> 1]>>

\* C30 as the specification states it: the result of one callback goes to at
\* most one waiter.
C30_OneCallbackOneWaiter ==
    \A r, q \in Receivers :
        r # q => \A i \in 1..Len(got[r]), j \in 1..Len(got[q]) :
                     got[r][i].kind = "Ok" => got[q][j] # got[r][i]

\* C30, as the code behaves: discover_services and read_characteristic_value
\* wait on a new receiver of a topic, not on a one-shot sender.  A call that
\* has subscribed waits until a callback publishes; the first callback after
\* its subscription is what it returns, and that callback fulfils every call
\* subscribed at that time; a call returns Lagged when more callbacks than
\* the topic holds ran before it was polled, and never Canceled.
C30_CallbackFulfilsEveryWaiter ==
    \A r \in Receivers :
        /\ (Fresh(r) /\ idle[r] = 0) => Drained(r)
        /\ (Fresh(r) /\ idle[r] \in 1..topic.capacity)
              => try_recv_at(topic, rpos[r]).res =
                     [kind |-> "Ok", val |-> published - idle[r] + 1]
        /\ (Fresh(r) /\ idle[r] > topic.capacity)
              => try_recv_at(topic, rpos[r]).res.kind = "Overflowed"
        /\ got[r] # <<>> => got[r][1].kind \in {"Ok", "Lagged"}

\* two calls waited on the topic and the one callback fulfilled both
C30_Witness ==
    \E r, q \in Receivers :
        /\ r # q
        /\ published = 1
        /\ got[r] = <<[kind |-> "Ok", val |-> 1]>>
        /\ got[q] = got[r]

C34_NewReceiverStartsAtNow ==
    [][\A r \in Subscribers :
          /\ (Fresh(r) /\ idle[r] = 0) => Drained(r)
          /\ (Reads(r) /\ Last(got'[r]).kind = "Ok")
               => /\ got[r] = <<>> => Last(got'[r]).val > published - idle[r]
                  /\ \A i \in 1..Len(got[r]) :
                        got[r][i].kind = "Ok" => Last(got'[r]).val > got[r][i].val]_vars

\* on the capacity-16 topic r1 subscribed before the first event and has read
\* nothing: both events are still queued; r2 subscribed between the two and
\* its first read gave the second
C34_Witness ==
    /\ topic.capacity = Cap
    /\ published = 2
    /\ rpos["r1"] = 0 /\ got["r1"] = <<>>
    /\ Len(topic.queue) = 2
    /\ got["r2"] = <<[kind |-> "Ok", val |-> 2]>>

=============================================================================
